---- MODULE Spec2Model ----
(***************************************************************************)
(* Query execution and safety layer of smart-sql (backend/src/api/routes.rs *)
(* and backend/src/utils/security.rs).  Query texts are TLA+ strings, read  *)
(* as sequences of characters through Len, SubSeq and \o.                   *)
(***************************************************************************)
EXTENDS Integers, Sequences, FiniteSets, TLC

VARIABLES
    sql,            \* the query text of the request being handled
    verdict,        \* result of the last detect_injection call (NoVerdict before)
    patternsReady,  \* lazy_static DANGEROUS_PATTERNS / metacharacter set built
    probe,          \* a text whose first verdict is remembered
    probeVerdict,   \* the verdict of the first call on probe (NoVerdict before)
    limited,        \* the text add_limit_to_sql returned (NotLimited before)
    pc,             \* where execute_query stands: idle, resolving, building,
                    \* connected, querying, done
    activeIds,      \* the ids of the stored connections with is_active = 1
    connId,         \* payload.connection_id (0 for None)
    conn,           \* the resolved connection (NoConnection before)
    pool,           \* db_manager.pool: the backend kind connected to
    driverCall,     \* what was handed to the backend driver (NoCall before)
    native,         \* the native rows or documents the driver returned
    result,         \* the response of execute_query (NoResult before)
    fnCall,         \* the function last called and its argument (NoFn before)
    fnRet,          \* what that call returned
    registry,       \* QUERY_CANCELLERS: the ids that hold a cancellation sender
    api,            \* the requests to the other handlers and their responses
    limiter,        \* per key, the requests check_rate_limit has let through
    manager,        \* the TemplateManager: templates and default_templates
    http,           \* the template and connection requests and their responses
    lastConnectedAt \* the last_connected_at column of the toggled connection

guardVars == <<verdict, patternsReady, probe, probeVerdict>>
limitVars == <<limited>>
execVars == <<pc, activeIds, connId, conn, pool, driverCall, native, result>>

callVars == <<fnCall, fnRet>>
apiVars == <<registry, api>>
svcVars == <<limiter, manager, http, lastConnectedAt>>
restVars == <<callVars, apiVars, svcVars>>

vars == <<sql, guardVars, limitVars, execVars, restVars>>

----------------------------------------------------------------------------
(* Characters and strings *)

Ch(s, i) == SubSeq(s, i, i)

UpperAlpha == "ABCDEFGHIJKLMNOPQRSTUVWXYZ"
LowerAlpha == "abcdefghijklmnopqrstuvwxyz"
Digits == "0123456789"

CharsOf(s) == {Ch(s, i) : i \in 1..Len(s)}

UpperSet == CharsOf(UpperAlpha)
LowerSet == CharsOf(LowerAlpha)
DigitSet == CharsOf(Digits)

\* char::is_whitespace / regex \s, on the characters the texts use
IsWs(c) == c \in {" ", "\t", "\n", "\r"}

\* regex \w
IsWord(c) == c \in UpperSet \cup LowerSet \cup DigitSet \cup {"_"}

LowerMap == [c \in UpperSet |->
               Ch(LowerAlpha, CHOOSE i \in 1..26 : Ch(UpperAlpha, i) = c)]

LowerCh(c) == IF c \in UpperSet THEN LowerMap[c] ELSE c

RECURSIVE to_lowercase(_)
\* str::to_lowercase
to_lowercase(s) ==
    IF Len(s) = 0 THEN ""
    ELSE LowerCh(Ch(s, 1)) \o to_lowercase(SubSeq(s, 2, Len(s)))

\* the literal w occurs in s starting at position i
StartsAt(s, i, w) ==
    /\ i >= 1
    /\ i + Len(w) - 1 <= Len(s)
    /\ SubSeq(s, i, i + Len(w) - 1) = w

\* str::contains
Contains(s, w) == \E i \in 1..(Len(s) + 1) : StartsAt(s, i, w)

AllWs(s, i, j) == \A k \in i..j : IsWs(Ch(s, k))

\* \s+ w  matched from position i
WsPlusThen(s, i, w) ==
    \E j \in (i + 1)..Len(s) : AllWs(s, i, j - 1) /\ StartsAt(s, j, w)

\* \s* w  matched from position i
WsStarThen(s, i, w) ==
    \E j \in i..Len(s) : AllWs(s, i, j - 1) /\ StartsAt(s, j, w)

\* \s+  matched from position i
WsPlus(s, i) == i <= Len(s) /\ IsWs(Ch(s, i))

\* a \s b  as one regex:  a\s+b  somewhere in s
WordsApart(s, a, b) ==
    \E i \in 1..Len(s) : StartsAt(s, i, a) /\ WsPlusThen(s, i + Len(a), b)

----------------------------------------------------------------------------
(* Injection Guard: utils/security.rs *)

NoVerdict == [tag |-> "none", reason |-> ""]
Safe == [tag |-> "ok", reason |-> ""]
Unsafe(reason) == [tag |-> "err", reason |-> reason]

\* the first rule with the whitespace alternative of its prefix group left out
RuleUnionSelectNoWs(s) ==
    LET L == to_lowercase(s) IN
    \E i \in 1..Len(L) :
        /\ StartsAt(L, i, "union")
        /\ \/ i > 1 /\ Ch(L, i - 1) \in {";", "|"}
           \/ StartsAt(L, i - 2, "--")
        /\ WsPlusThen(L, i + 5, "select")

\* (?i)(;|--|\||\s)union\s+select
RuleUnionSelect(s) ==
    LET L == to_lowercase(s) IN
    \E i \in 1..Len(L) :
        /\ StartsAt(L, i, "union")
        /\ \/ i > 1 /\ (Ch(L, i - 1) \in {";", "|"} \/ IsWs(Ch(L, i - 1)))
           \/ StartsAt(L, i - 2, "--")
        /\ WsPlusThen(L, i + 5, "select")

\* (?i)drop\s+table\s+
RuleDropTable(s) ==
    LET L == to_lowercase(s) IN
    \E i \in 1..Len(L) : \E j \in (i + 5)..Len(L) :
        /\ StartsAt(L, i, "drop")
        /\ AllWs(L, i + 4, j - 1)
        /\ StartsAt(L, j, "table")
        /\ WsPlus(L, j + 5)

\* (?i)alter\s+table\s+
RuleAlterTable(s) ==
    LET L == to_lowercase(s) IN
    \E i \in 1..Len(L) : \E j \in (i + 6)..Len(L) :
        /\ StartsAt(L, i, "alter")
        /\ AllWs(L, i + 5, j - 1)
        /\ StartsAt(L, j, "table")
        /\ WsPlus(L, j + 5)

\* (?i)(create|drop)\s+database
RuleDatabase(s) ==
    LET L == to_lowercase(s) IN
    WordsApart(L, "create", "database") \/ WordsApart(L, "drop", "database")

\* ;\s*\w+
RuleMultiStatement(s) ==
    \E i \in 1..Len(s) : \E j \in (i + 1)..Len(s) :
        /\ Ch(s, i) = ";"
        /\ AllWs(s, i + 1, j - 1)
        /\ IsWord(Ch(s, j))

\* (?i)exec\s*\(|sp_executesql|xp_cmdshell
RuleDangerousFunction(s) ==
    LET L == to_lowercase(s) IN
    \/ \E i \in 1..Len(L) : StartsAt(L, i, "exec") /\ WsStarThen(L, i + 4, "(")
    \/ Contains(L, "sp_executesql")
    \/ Contains(L, "xp_cmdshell")

\* (?i)(\s|^)(--|#|/\*).*(\*/|$)   ('.' matches any character but a newline,
\* '$' the end of the text)
RuleComment(s) ==
    LET L == to_lowercase(s) IN
    \E p \in 1..Len(L) : \E intro \in {"--", "#", "/*"} :
        /\ p = 1 \/ IsWs(Ch(L, p - 1))
        /\ StartsAt(L, p, intro)
        /\ \E r \in (p + Len(intro))..(Len(L) + 1) :
              /\ \A k \in (p + Len(intro))..(r - 1) : Ch(L, k) # "\n"
              /\ r = Len(L) + 1 \/ StartsAt(L, r, "*/")

NumPatterns == 7

\* DANGEROUS_PATTERNS[i].0.is_match(s)
PatternMatches(i, s) ==
    CASE i = 1 -> RuleUnionSelect(s)
      [] i = 2 -> RuleDropTable(s)
      [] i = 3 -> RuleAlterTable(s)
      [] i = 4 -> RuleDatabase(s)
      [] i = 5 -> RuleMultiStatement(s)
      [] i = 6 -> RuleDangerousFunction(s)
      [] i = 7 -> RuleComment(s)

\* DANGEROUS_PATTERNS[i].1 (the reasons are Chinese texts in the source)
PatternReason(i) ==
    CASE i = 1 -> "UNION SELECT injection attempt"
      [] i = 2 -> "DROP TABLE not allowed"
      [] i = 3 -> "ALTER TABLE not allowed"
      [] i = 4 -> "database operation not allowed"
      [] i = 5 -> "multi-statement execution not allowed"
      [] i = 6 -> "dangerous function call not allowed"
      [] i = 7 -> "comment injection attempt"

MetacharReason == "suspicious SQL metacharacter combination"

DANGEROUS_METACHAR_COMBINATIONS ==
    {"' or ", " or '", "'--", "' /*", "*/ '", "'= '", "'like '", "1=1",
     "' union ", "' and ", " and '", ") or (", "' or ''='", "' or 1=1",
     ") or 1=1--"}

contains_dangerous_metacharacters(s) ==
    \E comb \in DANGEROUS_METACHAR_COMBINATIONS : Contains(s, comb)

RECURSIVE FirstPattern(_, _)
\* the for loop over DANGEROUS_PATTERNS: index of the first match, 0 if none
FirstPattern(i, s) ==
    IF i > NumPatterns THEN 0
    ELSE IF PatternMatches(i, s) THEN i
    ELSE FirstPattern(i + 1, s)

check_dangerous_patterns(s) ==
    LET i == FirstPattern(1, s) IN
    IF i # 0 THEN Unsafe(PatternReason(i))
    ELSE IF contains_dangerous_metacharacters(s) THEN Unsafe(MetacharReason)
    ELSE Safe

\* the guard applied to the text as given, without lower-casing it
detect_injection_raw(text) == check_dangerous_patterns(text)

detect_injection(text) == check_dangerous_patterns(to_lowercase(text))

----------------------------------------------------------------------------
(* Decimal numerals: the texts hold LIMIT values wider than the checker's   *)
(* integers, so a numeral is compared as a digit string and is turned into  *)
(* a number only when it is short.                                          *)

AllDigits(s) == Len(s) > 0 /\ \A i \in 1..Len(s) : Ch(s, i) \in DigitSet

DigitVal(c) == (CHOOSE i \in 1..10 : Ch(Digits, i) = c) - 1

RECURSIVE StripZeros(_)
StripZeros(s) ==
    IF Len(s) > 1 /\ Ch(s, 1) = "0" THEN StripZeros(SubSeq(s, 2, Len(s))) ELSE s

RECURSIVE StrToNat(_)
\* the value of a numeral of at most 9 digits
StrToNat(s) ==
    IF Len(s) = 0 THEN 0
    ELSE 10 * StrToNat(SubSeq(s, 1, Len(s) - 1)) + DigitVal(Ch(s, Len(s)))

RECURSIVE NatToStr(_)
\* u64::to_string / Display of an integer
NatToStr(n) ==
    IF n < 10 THEN Ch(Digits, n + 1)
    ELSE NatToStr(n \div 10) \o Ch(Digits, (n % 10) + 1)

RECURSIVE DigitsLeq(_, _)
\* a <= b for two numerals of the same length
DigitsLeq(a, b) ==
    IF Len(a) = 0 THEN TRUE
    ELSE IF Ch(a, 1) # Ch(b, 1) THEN DigitVal(Ch(a, 1)) < DigitVal(Ch(b, 1))
    ELSE DigitsLeq(SubSeq(a, 2, Len(a)), SubSeq(b, 2, Len(b)))

\* numeral a denotes a value <= numeral b
NumeralLeq(a, b) ==
    LET x == StripZeros(a)
        y == StripZeros(b)
    IN  Len(x) < Len(y) \/ (Len(x) = Len(y) /\ DigitsLeq(x, y))

U64_MAX == "18446744073709551615"
U32_MAX == "4294967295"
I64_MAX == "9223372036854775807"

\* str::parse::<uN>() succeeds: digits only and the value fits the type
ParsesAs(s, typeMax) == AllDigits(s) /\ NumeralLeq(s, typeMax)

MAX_LIMIT == 1500
DEFAULT_LIMIT == 200

\* cmp::min(current, MAX_LIMIT) for a numeral that parsed
MinWithMax(s) ==
    LET z == StripZeros(s) IN
    IF Len(z) > 4 THEN MAX_LIMIT
    ELSE IF StrToNat(z) < MAX_LIMIT THEN StrToNat(z) ELSE MAX_LIMIT

----------------------------------------------------------------------------
(* Statement Parser: parse_sql (sqlparser, GenericDialect) on the statement *)
(* forms the requests use, and the serialisation of the parsed statement    *)

UpperMap == [c \in LowerSet |->
               Ch(UpperAlpha, CHOOSE i \in 1..26 : Ch(LowerAlpha, i) = c)]

UpperCh(c) == IF c \in LowerSet THEN UpperMap[c] ELSE c

RECURSIVE to_uppercase(_)
to_uppercase(s) ==
    IF Len(s) = 0 THEN ""
    ELSE UpperCh(Ch(s, 1)) \o to_uppercase(SubSeq(s, 2, Len(s)))

Keywords ==
    {"select", "from", "where", "limit", "insert", "into", "values", "update",
     "set", "delete", "drop", "table", "all", "union"}

\* last position of the run of word characters that starts at i
WordEnd(s, i) ==
    CHOOSE j \in i..Len(s) :
        /\ \A k \in i..j : IsWord(Ch(s, k))
        /\ j = Len(s) \/ ~IsWord(Ch(s, j + 1))

\* position of the quote closing the literal opened at i, 0 when unterminated
QuoteEnd(s, i) ==
    IF \E j \in (i + 1)..Len(s) : Ch(s, j) = "'"
    THEN CHOOSE j \in (i + 1)..Len(s) :
            Ch(s, j) = "'" /\ \A k \in (i + 1)..(j - 1) : Ch(s, k) # "'"
    ELSE 0

BadToken == "<unterminated>"

RECURSIVE TokensFrom(_, _)
\* Tokenizer::tokenize without the whitespace tokens
TokensFrom(s, i) ==
    IF i > Len(s) THEN <<>>
    ELSE LET c == Ch(s, i) IN
         IF IsWs(c) THEN TokensFrom(s, i + 1)
         ELSE IF IsWord(c)
              THEN <<SubSeq(s, i, WordEnd(s, i))>> \o TokensFrom(s, WordEnd(s, i) + 1)
         ELSE IF c = "'"
              THEN IF QuoteEnd(s, i) = 0 THEN <<BadToken>>
                   ELSE <<SubSeq(s, i, QuoteEnd(s, i))>> \o TokensFrom(s, QuoteEnd(s, i) + 1)
         ELSE <<c>> \o TokensFrom(s, i + 1)

Tokenize(s) == TokensFrom(s, 1)

Kw(tok) == to_lowercase(tok)

IsNumber(tok) == AllDigits(tok)
IsStringLit(tok) == Len(tok) >= 2 /\ Ch(tok, 1) = "'" /\ Ch(tok, Len(tok)) = "'"
IsIdent(tok) ==
    /\ Len(tok) > 0
    /\ \A i \in 1..Len(tok) : IsWord(Ch(tok, i))
    /\ Ch(tok, 1) \notin DigitSet
    /\ Kw(tok) \notin Keywords

IsOperand(tok) == IsNumber(tok) \/ IsStringLit(tok) \/ IsIdent(tok)

\* ident = operand
IsCondition(toks) ==
    Len(toks) = 3 /\ IsIdent(toks[1]) /\ toks[2] = "=" /\ IsOperand(toks[3])

\* *  |  ident (, ident)*
IsProjection(toks) ==
    \/ toks = <<"*">>
    \/ /\ Len(toks) % 2 = 1
       /\ \A i \in 1..Len(toks) :
            IF i % 2 = 1 THEN IsIdent(toks[i]) ELSE toks[i] = ","

\* [WHERE condition]
IsOptWhere(toks) ==
    \/ toks = <<>>
    \/ Len(toks) = 4 /\ Kw(toks[1]) = "where" /\ IsCondition(SubSeq(toks, 2, 4))

\* index of the first token that is the keyword kw, 0 when there is none
KwIndex(toks, kw) ==
    IF \E i \in 1..Len(toks) : Kw(toks[i]) = kw
    THEN CHOOSE i \in 1..Len(toks) :
            Kw(toks[i]) = kw /\ \A k \in 1..(i - 1) : Kw(toks[k]) # kw
    ELSE 0

NoLimit == [tag |-> "None", s |-> ""]
NumberLimit(s) == [tag |-> "Number", s |-> s]
ExprLimit(s) == [tag |-> "Expr", s |-> s]

\* Parser::parse_limit: LIMIT ALL is no limit; otherwise an expression
IsLimitExpr(toks) ==
    \/ Len(toks) = 1 /\ (IsNumber(toks[1]) \/ toks[1] = "?" \/ Kw(toks[1]) = "all")
    \/ Len(toks) = 3 /\ IsNumber(toks[1]) /\ toks[2] = "+" /\ IsNumber(toks[3])

LimitExprOf(toks) ==
    IF Len(toks) = 3 THEN ExprLimit(toks[1] \o " + " \o toks[3])
    ELSE IF IsNumber(toks[1]) THEN NumberLimit(toks[1])
    ELSE IF toks[1] = "?" THEN ExprLimit("?")
    ELSE NoLimit

ParseError == [kind |-> "Error", body |-> <<>>, limit |-> NoLimit]

\* the tokens with every keyword in upper case, as Display writes them
Canonical(toks) ==
    [i \in 1..Len(toks) |->
        IF Kw(toks[i]) \in Keywords THEN to_uppercase(toks[i]) ELSE toks[i]]

\* SELECT projection FROM table [WHERE condition] [LIMIT expr]
ParseQuery(toks) ==
    LET li == KwIndex(toks, "limit")
        pre == IF li = 0 THEN toks ELSE SubSeq(toks, 1, li - 1)
        lim == IF li = 0 THEN <<>> ELSE SubSeq(toks, li + 1, Len(toks))
        fi == KwIndex(pre, "from")
    IN  IF /\ fi >= 3
           /\ Len(pre) >= fi + 1
           /\ IsProjection(SubSeq(pre, 2, fi - 1))
           /\ IsIdent(pre[fi + 1])
           /\ IsOptWhere(SubSeq(pre, fi + 2, Len(pre)))
           /\ li = 0 \/ IsLimitExpr(lim)
        THEN [kind |-> "Query", body |-> Canonical(pre),
              limit |-> IF li = 0 THEN NoLimit ELSE LimitExprOf(lim)]
        ELSE ParseError

Stmt(kind, toks) == [kind |-> kind, body |-> Canonical(toks), limit |-> NoLimit]

\* Parser::parse_statement
ParseStatement(toks) ==
    LET n == Len(toks)
        k1 == IF n >= 1 THEN Kw(toks[1]) ELSE ""
        k2 == IF n >= 2 THEN Kw(toks[2]) ELSE ""
    IN  CASE k1 = "select" -> ParseQuery(toks)
          [] k1 = "insert" ->
                IF /\ n = 7 /\ k2 = "into" /\ IsIdent(toks[3])
                   /\ Kw(toks[4]) = "values" /\ toks[5] = "("
                   /\ IsOperand(toks[6]) /\ toks[7] = ")"
                THEN Stmt("Insert", toks) ELSE ParseError
          [] k1 = "update" ->
                IF /\ n >= 6 /\ IsIdent(toks[2]) /\ Kw(toks[3]) = "set"
                   /\ IsCondition(SubSeq(toks, 4, 6))
                   /\ IsOptWhere(SubSeq(toks, 7, n))
                THEN Stmt("Update", toks) ELSE ParseError
          [] k1 = "delete" ->
                IF /\ n >= 3 /\ k2 = "from" /\ IsIdent(toks[3])
                   /\ IsOptWhere(SubSeq(toks, 4, n))
                THEN Stmt("Delete", toks) ELSE ParseError
          [] k1 = "drop" ->
                IF n = 3 /\ k2 = "table" /\ IsIdent(toks[3])
                THEN Stmt("Drop", toks) ELSE ParseError
          [] OTHER -> ParseError

RECURSIVE SplitStatements(_)
\* Parser::parse_statements: the token runs between ';', empty runs skipped
SplitStatements(toks) ==
    LET si == IF \E i \in 1..Len(toks) : toks[i] = ";"
              THEN CHOOSE i \in 1..Len(toks) :
                      toks[i] = ";" /\ \A k \in 1..(i - 1) : toks[k] # ";"
              ELSE 0
    IN  IF Len(toks) = 0 THEN <<>>
        ELSE IF si = 0 THEN <<toks>>
        ELSE IF si = 1 THEN SplitStatements(SubSeq(toks, 2, Len(toks)))
        ELSE <<SubSeq(toks, 1, si - 1)>> \o SplitStatements(SubSeq(toks, si + 1, Len(toks)))

\* parse_sql: Ok(statement) for exactly one statement, else Err (ParseError)
parse_sql(text) ==
    LET stmts == SplitStatements(Tokenize(text)) IN
    IF \E i \in 1..Len(stmts) : ParseStatement(stmts[i]) = ParseError THEN ParseError
    ELSE IF Len(stmts) # 1 THEN ParseError
    ELSE ParseStatement(stmts[1])

RECURSIVE JoinTokens(_)
\* Display of a token run: single blanks, none before ',' and ')' or after '('
JoinTokens(toks) ==
    IF Len(toks) = 0 THEN ""
    ELSE IF Len(toks) = 1 THEN toks[1]
    ELSE IF toks[2] \in {",", ")"} \/ toks[1] = "("
         THEN toks[1] \o JoinTokens(Tail(toks))
         ELSE toks[1] \o " " \o JoinTokens(Tail(toks))

\* reconstruct_sql: statement.to_string()
reconstruct_sql(statement) ==
    JoinTokens(statement.body)
        \o (IF statement.limit.tag = "None" THEN ""
            ELSE " LIMIT " \o statement.limit.s)

----------------------------------------------------------------------------
(* Limit Clamp: apply_limit_clamping and add_limit_to_sql *)

\* the clamp without the defaulting arm: a query without LIMIT is left alone
apply_limit_clamping_no_default(statement) ==
    IF statement.kind = "Query" /\ statement.limit.tag = "Number"
          /\ ParsesAs(statement.limit.s, U64_MAX)
    THEN [statement EXCEPT !.limit = NumberLimit(NatToStr(MinWithMax(statement.limit.s)))]
    ELSE statement

\* the clamp without the match on the statement kind
apply_limit_clamping_any_kind(statement) ==
    IF statement.limit.tag = "None"
    THEN [statement EXCEPT !.limit = NumberLimit(NatToStr(DEFAULT_LIMIT))]
    ELSE statement

apply_limit_clamping(statement) ==
    IF statement.kind = "Query"
    THEN IF statement.limit.tag # "None"
         THEN IF statement.limit.tag = "Number" /\ ParsesAs(statement.limit.s, U64_MAX)
              THEN [statement EXCEPT
                      !.limit = NumberLimit(NatToStr(MinWithMax(statement.limit.s)))]
              ELSE statement
         ELSE [statement EXCEPT !.limit = NumberLimit(NatToStr(DEFAULT_LIMIT))]
    ELSE statement

\* position of the first occurrence of w in s (str::find), 0 when absent
Find(s, w) ==
    IF Contains(s, w)
    THEN CHOOSE i \in 1..(Len(s) + 1) :
            StartsAt(s, i, w) /\ \A k \in 1..(i - 1) : ~StartsAt(s, k, w)
    ELSE 0

\* first position of s holding neither a digit nor whitespace, Len(s)+1 if none
FirstOther(s) ==
    CHOOSE i \in 1..(Len(s) + 1) :
        /\ \A k \in 1..(i - 1) : Ch(s, k) \in DigitSet \/ IsWs(Ch(s, k))
        /\ i = Len(s) + 1 \/ ~(Ch(s, i) \in DigitSet \/ IsWs(Ch(s, i)))

RECURSIVE DigitsOnly(_)
\* the digits of s, its whitespace skipped
DigitsOnly(s) ==
    IF Len(s) = 0 THEN ""
    ELSE (IF Ch(s, 1) \in DigitSet THEN Ch(s, 1) ELSE "")
            \o DigitsOnly(SubSeq(s, 2, Len(s)))

\* the string fallback of add_limit_to_sql
limit_fallback(text) ==
    LET sql_lower == to_lowercase(text)
        limit_index == Find(sql_lower, " limit ")
        after_limit == SubSeq(text, limit_index + 7, Len(text))
        stop == FirstOther(after_limit)
        limit_value == DigitsOnly(SubSeq(after_limit, 1, stop - 1))
        limit == IF ParsesAs(limit_value, U32_MAX) THEN MinWithMax(limit_value)
                 ELSE DEFAULT_LIMIT
    IN  IF limit_index # 0
        THEN SubSeq(text, 1, limit_index + 6) \o NatToStr(limit)
                \o SubSeq(after_limit, stop, Len(after_limit))
        ELSE text \o " LIMIT 200"

add_limit_to_sql(text) ==
    LET ast == parse_sql(text) IN
    IF ast # ParseError THEN reconstruct_sql(apply_limit_clamping(ast))
    ELSE limit_fallback(text)

----------------------------------------------------------------------------
(* Shell-Command Extractor: the document-store arm of execute_query *)

\* first position >= i of s that holds no whitespace, Len(s)+1 if none
SkipWs(s, i) ==
    CHOOSE j \in i..(Len(s) + 1) :
        /\ \A k \in i..(j - 1) : IsWs(Ch(s, k))
        /\ j = Len(s) + 1 \/ ~IsWs(Ch(s, j))

\* last position <= i of s that holds no whitespace, 0 if none
SkipWsBack(s, i) ==
    CHOOSE j \in 0..i :
        /\ \A k \in (j + 1)..i : IsWs(Ch(s, k))
        /\ j = 0 \/ ~IsWs(Ch(s, j))

\* str::trim
Trim(s) == SubSeq(s, SkipWs(s, 1), SkipWsBack(s, Len(s)))

\* str::trim_matches(|c| c == '{' || c == '}')
TrimBraces(s) ==
    LET isB(c) == c \in {"{", "}"}
        a == CHOOSE j \in 1..(Len(s) + 1) :
                /\ \A k \in 1..(j - 1) : isB(Ch(s, k))
                /\ j = Len(s) + 1 \/ ~isB(Ch(s, j))
        b == CHOOSE j \in 0..Len(s) :
                /\ \A k \in (j + 1)..Len(s) : isB(Ch(s, k))
                /\ j = 0 \/ ~isB(Ch(s, j))
    IN  SubSeq(s, a, b)

Openers == {"(", "{", "["}
Closers == {")", "}", "]"}

RECURSIVE CloseFrom(_, _, _)
CloseFrom(s, i, depth) ==
    IF i > Len(s) THEN 0
    ELSE IF Ch(s, i) \in Openers THEN CloseFrom(s, i + 1, depth + 1)
    ELSE IF Ch(s, i) \in Closers
         THEN IF depth - 1 = 0 THEN i ELSE CloseFrom(s, i + 1, depth - 1)
    ELSE CloseFrom(s, i + 1, depth)

\* find_close_bracket: position of the delimiter that closes the call, 0 for None
find_close_bracket(s) == CloseFrom(s, 1, 1)

RECURSIVE SplitFrom(_, _, _, _)
\* the loop of split_params: i the scan position, start the piece's first position
SplitFrom(s, i, start, depth) ==
    IF i > Len(s)
    THEN IF start <= Len(s) THEN <<Trim(SubSeq(s, start, Len(s)))>> ELSE <<>>
    ELSE IF Ch(s, i) \in Openers THEN SplitFrom(s, i + 1, start, depth + 1)
    ELSE IF Ch(s, i) \in Closers THEN SplitFrom(s, i + 1, start, depth - 1)
    ELSE IF Ch(s, i) = "," /\ depth = 0
         THEN <<Trim(SubSeq(s, start, i - 1))>> \o SplitFrom(s, i + 1, i + 1, 0)
    ELSE SplitFrom(s, i + 1, start, depth)


RECURSIVE SplitOn(_, _)
\* str::split(sep) for a separator of one or more characters
SplitOn(s, sep) ==
    LET i == Find(s, sep) IN
    IF i = 0 THEN <<s>>
    ELSE <<SubSeq(s, 1, i - 1)>> \o SplitOn(SubSeq(s, i + Len(sep), Len(s)), sep)

\* the split at every comma, nested or not
split_params_at_every_comma(s) ==
    LET pieces == SplitOn(s, ",")
        count == IF Len(pieces[Len(pieces)]) = 0 THEN Len(pieces) - 1 ELSE Len(pieces)
    IN  [i \in 1..count |-> Trim(pieces[i])]

split_params(s) == SplitFrom(s, 1, 1, 0)

\* Documents: ordered sequences of <<key, value>>; a value is [k, v] with k
\* its type and v its text (scalars) or its members (Document, Array)
Bson(k, v) == [k |-> k, v |-> v]

\* the document's value for key, as doc.get(key)
HasKey(doc, key) == \E i \in 1..Len(doc) : doc[i][1] = key
DocGet(doc, key) == doc[CHOOSE i \in 1..Len(doc) : doc[i][1] = key][2]
DocKeys(doc) == [i \in 1..Len(doc) |-> doc[i][1]]

\* Document::insert: replaces the value of a present key, else appends
DocInsert(doc, key, val) ==
    IF HasKey(doc, key)
    THEN [i \in 1..Len(doc) |-> IF doc[i][1] = key THEN <<key, val>> ELSE doc[i]]
    ELSE Append(doc, <<key, val>>)

I32_MAX == "2147483647"
I32_MIN_ABS == "2147483648"

\* str::parse::<i32>() succeeds
ParsesI32(s) ==
    \/ ParsesAs(s, I32_MAX)
    \/ Len(s) > 1 /\ Ch(s, 1) = "+" /\ ParsesAs(SubSeq(s, 2, Len(s)), I32_MAX)
    \/ Len(s) > 1 /\ Ch(s, 1) = "-" /\ ParsesAs(SubSeq(s, 2, Len(s)), I32_MIN_ABS)

\* the text of the parsed i32
I32Text(s) ==
    IF Ch(s, 1) = "-"
    THEN IF StripZeros(SubSeq(s, 2, Len(s))) = "0" THEN "0"
         ELSE "-" \o StripZeros(SubSeq(s, 2, Len(s)))
    ELSE IF Ch(s, 1) = "+" THEN StripZeros(SubSeq(s, 2, Len(s)))
    ELSE StripZeros(s)

\* str::parse::<f64>() succeeds: [sign] digits [. digits], or a dot on one side
ParsesF64(s) ==
    LET body == IF Len(s) > 0 /\ Ch(s, 1) \in {"+", "-"} THEN SubSeq(s, 2, Len(s)) ELSE s
        dot == Find(body, ".")
        int == IF dot = 0 THEN body ELSE SubSeq(body, 1, dot - 1)
        frac == IF dot = 0 THEN "" ELSE SubSeq(body, dot + 1, Len(body))
    IN  \/ to_lowercase(body) \in {"inf", "infinity", "nan"}
        \/ /\ Len(int) + Len(frac) > 0
           /\ Len(int) = 0 \/ AllDigits(int)
           /\ Len(frac) = 0 \/ AllDigits(frac)

\* the value side of a projection pair
ProjectionValue(value_trimmed) ==
    CASE value_trimmed = "1" -> Bson("Int32", "1")
      [] value_trimmed = "0" -> Bson("Int32", "0")
      [] value_trimmed = "true" -> Bson("Boolean", "true")
      [] value_trimmed = "false" -> Bson("Boolean", "false")
      [] OTHER ->
            IF ParsesI32(value_trimmed) THEN Bson("Int32", I32Text(value_trimmed))
            ELSE IF ParsesF64(value_trimmed) THEN Bson("Double", value_trimmed)
            ELSE Bson("String", value_trimmed)

RECURSIVE ProjectionPairs(_, _)
\* the for loop of parse_mongodb_projection over the pairs
ProjectionPairs(pairs, doc) ==
    IF Len(pairs) = 0 THEN doc
    ELSE LET pair == Trim(pairs[1])
             c == Find(pair, ":")
         IN  IF c = 0 THEN ProjectionPairs(Tail(pairs), doc)
             ELSE ProjectionPairs(Tail(pairs),
                     DocInsert(doc, Trim(SubSeq(pair, 1, c - 1)),
                               ProjectionValue(Trim(SubSeq(pair, c + 1, Len(pair))))))

\* parse_mongodb_projection: always Ok(doc)
parse_mongodb_projection(projection_str) ==
    LET trimmed == Trim(TrimBraces(Trim(projection_str))) IN
    IF Len(trimmed) = 0 THEN <<>>
    ELSE ProjectionPairs(SplitOn(trimmed, ","), <<>>)

----------------------------------------------------------------------------
(* The filter argument: serde_json::from_str, then bson::to_document *)

\* the characters of the texts in code-point order (String's Ord)
CodeOrder == "\"$'()*+,-.0123456789:;=?ABCDEFGHIJKLMNOPQRSTUVWXYZ[]_abcdefghijklmnopqrstuvwxyz{|}"

CharRank(c) ==
    IF \E i \in 1..Len(CodeOrder) : Ch(CodeOrder, i) = c
    THEN CHOOSE i \in 1..Len(CodeOrder) : Ch(CodeOrder, i) = c
    ELSE 0

RECURSIVE StrLess(_, _)
\* a < b in String's order
StrLess(a, b) ==
    IF Len(b) = 0 THEN FALSE
    ELSE IF Len(a) = 0 THEN TRUE
    ELSE IF Ch(a, 1) # Ch(b, 1) THEN CharRank(Ch(a, 1)) < CharRank(Ch(b, 1))
    ELSE StrLess(SubSeq(a, 2, Len(a)), SubSeq(b, 2, Len(b)))

\* the character at position i, "" outside the text
At(s, i) == IF i >= 1 /\ i <= Len(s) THEN Ch(s, i) ELSE ""

\* serde_json's Map is keyed in key order and keeps the last value of a key
RECURSIVE MapInsert(_, _, _)
MapInsert(pairs, key, val) ==
    IF Len(pairs) = 0 THEN <<<<key, val>>>>
    ELSE IF pairs[1][1] = key THEN <<<<key, val>>>> \o Tail(pairs)
    ELSE IF StrLess(key, pairs[1][1]) THEN <<<<key, val>>>> \o pairs
    ELSE <<pairs[1]>> \o MapInsert(Tail(pairs), key, val)

JFail == [ok |-> FALSE, v |-> Bson("Null", ""), next |-> 0]
JOk(v, next) == [ok |-> TRUE, v |-> v, next |-> next]

\* last position of the run of digits that starts at i (i - 1 when there is none)
DigitsEnd(s, i) ==
    CHOOSE j \in (i - 1)..Len(s) :
        /\ \A k \in i..j : Ch(s, k) \in DigitSet
        /\ j = Len(s) \/ Ch(s, j + 1) \notin DigitSet

\* a JSON number at position i
JNumber(s, i) ==
    LET d == IF At(s, i) = "-" THEN i + 1 ELSE i
        e == DigitsEnd(s, d)
        f == IF At(s, e + 1) = "." THEN DigitsEnd(s, e + 2) ELSE e
    IN  IF e < d \/ (e > d /\ Ch(s, d) = "0") THEN JFail
        ELSE IF At(s, e + 1) = "."
             THEN IF f < e + 2 THEN JFail
                  ELSE JOk(Bson("Double", SubSeq(s, i, f)), f + 1)
        ELSE IF NumeralLeq(SubSeq(s, d, e), I64_MAX)
             THEN JOk(Bson("Int64", SubSeq(s, i, e)), e + 1)
        ELSE JOk(Bson("Double", SubSeq(s, i, e)), e + 1)

\* a JSON string (without escapes) at position i
JString(s, i) ==
    IF At(s, i) # "\"" \/ ~\E j \in (i + 1)..Len(s) : Ch(s, j) = "\"" THEN JFail
    ELSE LET j == CHOOSE j \in (i + 1)..Len(s) :
                     Ch(s, j) = "\"" /\ \A k \in (i + 1)..(j - 1) : Ch(s, k) # "\""
         IN  JOk(Bson("String", SubSeq(s, i + 1, j - 1)), j + 1)

RECURSIVE JValue(_, _), JMembers(_, _, _), JElements(_, _, _)

\* a JSON value at or after position i
JValue(s, i) ==
    LET p == SkipWs(s, i)
        c == At(s, p)
    IN  CASE c = "{" ->
                IF At(s, SkipWs(s, p + 1)) = "}"
                THEN JOk(Bson("Document", <<>>), SkipWs(s, p + 1) + 1)
                ELSE JMembers(s, p + 1, <<>>)
          [] c = "[" ->
                IF At(s, SkipWs(s, p + 1)) = "]"
                THEN JOk(Bson("Array", <<>>), SkipWs(s, p + 1) + 1)
                ELSE JElements(s, p + 1, <<>>)
          [] c = "\"" -> JString(s, p)
          [] c \in DigitSet \cup {"-"} -> JNumber(s, p)
          [] StartsAt(s, p, "true") -> JOk(Bson("Boolean", "true"), p + 4)
          [] StartsAt(s, p, "false") -> JOk(Bson("Boolean", "false"), p + 5)
          [] StartsAt(s, p, "null") -> JOk(Bson("Null", ""), p + 4)
          [] OTHER -> JFail

\* the members of an object from position i on, acc the members read so far
JMembers(s, i, acc) ==
    LET key == JString(s, SkipWs(s, i))
        colon == SkipWs(s, key.next)
        val == JValue(s, colon + 1)
        sep == SkipWs(s, val.next)
    IN  IF ~key.ok \/ At(s, colon) # ":" THEN JFail
        ELSE IF ~val.ok THEN JFail
        ELSE IF At(s, sep) = "}"
             THEN JOk(Bson("Document", MapInsert(acc, key.v.v, val.v)), sep + 1)
        ELSE IF At(s, sep) = ","
             THEN JMembers(s, sep + 1, MapInsert(acc, key.v.v, val.v))
        ELSE JFail

\* the elements of an array from position i on
JElements(s, i, acc) ==
    LET val == JValue(s, i)
        sep == SkipWs(s, val.next)
    IN  IF ~val.ok THEN JFail
        ELSE IF At(s, sep) = "]" THEN JOk(Bson("Array", Append(acc, val.v)), sep + 1)
        ELSE IF At(s, sep) = "," THEN JElements(s, sep + 1, Append(acc, val.v))
        ELSE JFail

NoDocument == Bson("None", <<>>)
SomeDocument(doc) == Bson("Some", doc)

\* serde_json::from_str::<Value>(text) and bson::to_document(&value): the
\* document, or NoDocument when the text is no JSON object
json_to_document(text) ==
    LET r == JValue(text, 1) IN
    IF r.ok /\ SkipWs(text, r.next) = Len(text) + 1 /\ r.v.k = "Document"
    THEN SomeDocument(r.v.v)
    ELSE NoDocument

----------------------------------------------------------------------------
(* Dangerous-Operator Filter: utils/bson_parser.rs *)

DANGEROUS_OPERATORS ==
    {"$where", "$eval", "$function", "$javascript", "$mapReduce", "$group.$push",
     "$group.$addToSet", "$out", "$merge", "$bucketAuto"}

RECURSIVE check_dangerous_operators_recursive(_)
check_dangerous_operators_recursive(value) ==
    CASE value.k = "Document" ->
            \E i \in 1..Len(value.v) :
                \/ value.v[i][1] \in DANGEROUS_OPERATORS
                \/ check_dangerous_operators_recursive(value.v[i][2])
      [] value.k = "Array" ->
            \E i \in 1..Len(value.v) : check_dangerous_operators_recursive(value.v[i])
      [] OTHER -> FALSE

contains_dangerous_operators(doc) ==
    check_dangerous_operators_recursive(Bson("Document", doc))

\* the filter that leaves arrays as they are
RECURSIVE filter_recursive_skipping_arrays(_)
filter_recursive_skipping_arrays(value) ==
    IF value.k = "Document"
    THEN LET kept == SelectSeq(value.v, LAMBDA m : m[1] \notin DANGEROUS_OPERATORS) IN
         Bson("Document",
              [i \in 1..Len(kept) |->
                  <<kept[i][1], filter_recursive_skipping_arrays(kept[i][2])>>])
    ELSE value

RECURSIVE filter_dangerous_operators_recursive(_), FilterMembers(_, _)

\* the for loop over doc.iter(): the members not on the denylist, each
\* inserted with its filtered value
FilterMembers(members, filtered_doc) ==
    IF Len(members) = 0 THEN filtered_doc
    ELSE IF members[1][1] \notin DANGEROUS_OPERATORS
         THEN FilterMembers(Tail(members),
                  DocInsert(filtered_doc, members[1][1],
                            filter_dangerous_operators_recursive(members[1][2])))
         ELSE FilterMembers(Tail(members), filtered_doc)

filter_dangerous_operators_recursive(value) ==
    CASE value.k = "Document" -> Bson("Document", FilterMembers(value.v, <<>>))
      [] value.k = "Array" ->
            Bson("Array", [i \in 1..Len(value.v) |->
                              filter_dangerous_operators_recursive(value.v[i])])
      [] OTHER -> value

filter_dangerous_operators(doc) ==
    LET filtered_bson == filter_dangerous_operators_recursive(Bson("Document", doc)) IN
    IF filtered_bson.k = "Document" THEN filtered_bson.v ELSE <<>>

\* filter_aggregate_pipeline: every stage without its denylisted keys
\* the pipeline without the stages the filter has emptied
filter_aggregate_pipeline_dropping_empty(pipeline) ==
    SelectSeq([i \in 1..Len(pipeline) |-> FilterMembers(pipeline[i], <<>>)],
              LAMBDA stage : Len(stage) > 0)

filter_aggregate_pipeline(pipeline) ==
    [i \in 1..Len(pipeline) |-> FilterMembers(pipeline[i], <<>>)]

RECURSIVE Mod32(_)
\* the low 32 bits of a decimal numeral, as <<high 16 bits, low 16 bits>>
Mod32(s) ==
    IF Len(s) = 0 THEN <<0, 0>>
    ELSE LET p == Mod32(SubSeq(s, 1, Len(s) - 1))
             lo == p[2] * 10 + DigitVal(Ch(s, Len(s)))
             hi == p[1] * 10 + lo \div 65536
         IN  <<hi % 65536, lo % 65536>>

\* the two's complement of 32 bits
Neg32(w) ==
    IF w[2] = 0 THEN <<(65536 - w[1]) % 65536, 0>> ELSE <<65535 - w[1], 65536 - w[2]>>

\* 32 bits read as an i32
Signed32(w) == IF w[1] >= 32768 THEN (w[1] - 65536) * 65536 + w[2] ELSE w[1] * 65536 + w[2]

I32_MIN == -2147483647 - 1

\* `*val as i32` for an i64: the low 32 bits of the value
i64_as_i32(text) ==
    IF Ch(text, 1) = "-" THEN Signed32(Neg32(Mod32(SubSeq(text, 2, Len(text)))))
    ELSE Signed32(Mod32(text))

\* `*val as i32` for an f64: the fraction dropped, the value saturated
f64_as_i32(text) ==
    LET negative == Ch(text, 1) = "-"
        body == IF negative THEN SubSeq(text, 2, Len(text)) ELSE text
        dot == Find(body, ".")
        int == IF dot = 0 THEN body ELSE SubSeq(body, 1, dot - 1)
    IN  IF NumeralLeq(int, I32_MAX)
        THEN IF negative THEN 0 - StrToNat(StripZeros(int)) ELSE StrToNat(StripZeros(int))
        ELSE IF negative THEN I32_MIN ELSE 2147483647

\* Display of an i32
I32ToStr(n) ==
    IF n = I32_MIN THEN "-2147483648"
    ELSE IF n < 0 THEN "-" \o NatToStr(0 - n)
    ELSE NatToStr(n)

\* the match on limit_bson
limit_bson_value(limit_bson) ==
    CASE limit_bson.k = "Int32" -> i64_as_i32(limit_bson.v)
      [] limit_bson.k = "Int64" -> i64_as_i32(limit_bson.v)
      [] limit_bson.k = "Double" -> f64_as_i32(limit_bson.v)
      [] OTHER -> 200

\* the body of the loop over the stages: limit_value.min(1500) stored as Int32
adjust_stage(stage) ==
    IF HasKey(stage, "$limit")
    THEN LET v == limit_bson_value(DocGet(stage, "$limit"))
             adjusted_limit == IF v < 1500 THEN v ELSE 1500
         IN  DocInsert(stage, "$limit", Bson("Int32", I32ToStr(adjusted_limit)))
    ELSE stage

add_or_adjust_limit(pipeline) ==
    IF \E i \in 1..Len(pipeline) : HasKey(pipeline[i], "$limit")
    THEN [i \in 1..Len(pipeline) |-> adjust_stage(pipeline[i])]
    ELSE Append(pipeline, <<<<"$limit", Bson("Int32", "200")>>>>)

----------------------------------------------------------------------------
(* Connections: build_connection_string and from_connection_string *)

Null == "<null>"

NoConnection ==
    [id |-> 0, db_type |-> Null, host |-> Null, port |-> Null,
     database_name |-> Null, username |-> Null, password |-> Null,
     file_path |-> Null, connection_string |-> Null]

NoCall ==
    [kind |-> "None", text |-> "", collection |-> "", query |-> NoDocument,
     projection |-> NoDocument, limit |-> Null]

NoResult == [status |-> "none", error |-> "", columns |-> <<>>, rows |-> <<>>, row_count |-> 0]

Connection(id, db_type, host, port, database_name, file_path, connection_string) ==
    [id |-> id, db_type |-> db_type, host |-> host, port |-> port,
     database_name |-> database_name, username |-> Null, password |-> Null,
     file_path |-> file_path, connection_string |-> connection_string]

\* the rows of the connections table of the local storage
StoredConnections ==
    << Connection(1, "mysql", "h", "3306", "app", Null, Null),
       Connection(2, "postgresql", "h", "5432", "app", Null, Null),
       Connection(3, "sqlite", Null, Null, Null, "a.db", Null),
       Connection(4, "mongodb", "h", "27017", "app", Null, Null),
       Connection(5, "mysql", Null, Null, "app", Null, Null),
       Connection(6, "postgresql", Null, Null, Null, Null, "postgres://u:p@h:5432/app") >>

\* an id no row has
UnknownConnectionId == 9

BuildError == "<invalid_connection>"

\* Option::as_deref().unwrap_or(default)
UnwrapOr(opt, default) == IF opt = Null THEN default ELSE opt

\* build_connection_string: the connection string, or BuildError
build_connection_string(connection) ==
    IF connection.connection_string # Null THEN connection.connection_string
    ELSE IF connection.file_path # Null /\ Len(Trim(connection.file_path)) > 0
         THEN "sqlite://" \o connection.file_path \o "?mode=rwc"
    ELSE IF connection.host # Null /\ connection.port # Null
               /\ connection.database_name # Null
         THEN LET host == connection.host
                  port == connection.port
                  db_name == connection.database_name
                  pass == UnwrapOr(connection.password, "")
              IN  CASE connection.db_type = "mysql" ->
                          "mysql://" \o UnwrapOr(connection.username, "root") \o ":"
                              \o pass \o "@" \o host \o ":" \o port \o "/" \o db_name
                    [] connection.db_type = "postgresql" ->
                          "postgresql://" \o UnwrapOr(connection.username, "postgres")
                              \o ":" \o pass \o "@" \o host \o ":" \o port \o "/" \o db_name
                    [] connection.db_type = "mongodb" ->
                          IF Len(UnwrapOr(connection.username, "root")) > 0 /\ Len(pass) > 0
                          THEN "mongodb://" \o UnwrapOr(connection.username, "root") \o ":"
                                  \o pass \o "@" \o host \o ":" \o port \o "/" \o db_name
                                  \o "?authSource=admin"
                          ELSE "mongodb://" \o host \o ":" \o port \o "/" \o db_name
                    [] OTHER -> BuildError
    ELSE BuildError

\* from_connection_string: the database type detected from the scheme
DetectType(database_url) ==
    IF StartsAt(database_url, 1, "postgres://") \/ StartsAt(database_url, 1, "postgresql://")
    THEN "PostgreSQL"
    ELSE IF StartsAt(database_url, 1, "mysql://") THEN "MySQL"
    ELSE IF StartsAt(database_url, 1, "sqlite:") THEN "SQLite"
    ELSE IF StartsAt(database_url, 1, "mongodb://") \/ StartsAt(database_url, 1, "mongodb+srv://")
    THEN "MongoDB"
    ELSE "Unsupported"

----------------------------------------------------------------------------
(* The document-store arm: collection name, find arguments, limit policy *)

\* iterator.nth(n) on the pieces of a split, "" for None (unwrap_or_default)
NthOrEmpty(pieces, n) == IF Len(pieces) >= n + 1 THEN pieces[n + 1] ELSE ""

method_split(text) ==
    IF Contains(text, ".find(") THEN ".find("
    ELSE IF Contains(text, ".aggregate(") THEN ".aggregate("
    ELSE "."

\* the collection name read from the trimmed command text
collection_name(text) ==
    LET head == SplitOn(text, method_split(text))[1] IN
    IF StartsAt(text, 1, "db.getCollection(")
    THEN IF Len(SplitOn(head, "\"")) >= 2 THEN SplitOn(head, "\"")[2]
         ELSE NthOrEmpty(SplitOn(head, "'"), 1)
    ELSE IF StartsAt(text, 1, "db.") THEN NthOrEmpty(SplitOn(head, "."), 1)
    ELSE text

\* the arguments of find(...), <<>> when there is no find( or no closing delimiter
find_params(text) ==
    LET f == Find(text, ".find(")
        params_part == SubSeq(text, f + 6, Len(text))
        end_idx == find_close_bracket(params_part)
    IN  IF f = 0 \/ end_idx = 0 THEN <<>>
        ELSE split_params(SubSeq(params_part, 1, end_idx - 1))

\* the filter handed to find: the first argument parsed as JSON
find_query(text) ==
    LET params == find_params(text) IN
    IF Len(params) >= 1 /\ Len(Trim(params[1])) > 0 /\ Trim(params[1]) # "{}"
    THEN json_to_document(Trim(params[1]))
    ELSE NoDocument

\* the projection dropped when no pair could be read from the argument
find_projection_dropping_empty(text) ==
    LET params == find_params(text) IN
    IF Len(params) >= 2 /\ Len(parse_mongodb_projection(Trim(params[2]))) > 0
    THEN SomeDocument(parse_mongodb_projection(Trim(params[2])))
    ELSE NoDocument

\* the projection handed to find: the second argument
find_projection(text) ==
    LET params == find_params(text) IN
    IF Len(params) >= 2 /\ Len(Trim(params[2])) > 0 /\ Trim(params[2]) # "{}"
    THEN SomeDocument(parse_mongodb_projection(Trim(params[2])))
    ELSE NoDocument

\* options.limit: the numeral handed to find
find_limit(text) ==
    LET sql_lower == to_lowercase(text)
        has_limit == Contains(sql_lower, " limit") \/ Contains(sql_lower, ".limit(")
        limit_index == Find(sql_lower, ".limit(")
        after_limit == SubSeq(text, limit_index + 7, Len(text))
        limit_value == DigitsOnly(SubSeq(after_limit, 1, FirstOther(after_limit) - 1))
    IN  IF has_limit /\ limit_index # 0
        THEN IF ParsesAs(limit_value, I64_MAX) THEN NatToStr(MinWithMax(limit_value))
             ELSE NatToStr(DEFAULT_LIMIT)
        ELSE NatToStr(DEFAULT_LIMIT)

\* the call each arm hands to its driver
SqlCall(kind, text) ==
    [kind |-> kind, text |-> text, collection |-> "", query |-> NoDocument,
     projection |-> NoDocument, limit |-> Null]

FindCall(text) ==
    [kind |-> "MongoDB", text |-> "", collection |-> collection_name(Trim(text)),
     query |-> find_query(Trim(text)), projection |-> find_projection(Trim(text)),
     limit |-> find_limit(Trim(text))]

\* the match on db_manager.pool up to the driver call
driver_call(kind, text) ==
    CASE kind = "MySQL" -> SqlCall(kind, text)
      [] kind = "PostgreSQL" -> SqlCall(kind, add_limit_to_sql(text))
      [] kind = "SQLite" -> SqlCall(kind, add_limit_to_sql(text))
      [] kind = "MongoDB" -> FindCall(text)

----------------------------------------------------------------------------
(* The relational drivers: what fetch_all returns for the text it is handed *)

MaxRows == 2

TableName == "users"
TableFields == <<"id", "name">>

\* column.type_info().name() of each field, per backend
ColumnType(kind, field) ==
    IF field = "id"
    THEN CASE kind = "MySQL" -> "BIGINT" [] kind = "PostgreSQL" -> "INT4"
           [] kind = "SQLite" -> "INTEGER"
    ELSE CASE kind = "MySQL" -> "VARCHAR" [] OTHER -> "TEXT"

\* the i-th stored row: its id, and a name that is NULL in every second row
TableRow(i) == <<NatToStr(i), IF i % 2 = 1 THEN "ann" ELSE Null>>

TableContents(n) == [i \in 1..n |-> TableRow(i)]

FieldIndex(field) ==
    IF \E i \in 1..Len(TableFields) : TableFields[i] = field
    THEN CHOOSE i \in 1..Len(TableFields) : TableFields[i] = field
    ELSE 0

SqlError == [ok |-> FALSE, rows |-> <<>>]
SqlRows(rows) == [ok |-> TRUE, rows |-> rows]

\* the table a parsed statement names
StatementTable(ast) ==
    CASE ast.kind = "Query" -> ast.body[KwIndex(ast.body, "from") + 1]
      [] ast.kind = "Update" -> ast.body[2]
      [] OTHER -> ast.body[3]

\* the fields a parsed query selects
SelectedFields(ast) ==
    LET proj == SubSeq(ast.body, 2, KwIndex(ast.body, "from") - 1) IN
    IF proj = <<"*">> THEN TableFields
    ELSE [i \in 1..((Len(proj) + 1) \div 2) |-> proj[2 * i - 1]]

\* the text of an operand: a string literal without its quotes
OperandText(tok) == IF IsStringLit(tok) THEN SubSeq(tok, 2, Len(tok) - 1) ELSE tok

\* the stored rows a parsed query's WHERE keeps
RowMatches(ast, row) ==
    LET wi == KwIndex(ast.body, "where") IN
    \/ wi = 0
    \/ /\ FieldIndex(ast.body[wi + 1]) # 0
       /\ row[FieldIndex(ast.body[wi + 1])] = OperandText(ast.body[wi + 3])

\* the first rows a LIMIT keeps: all of them when the numeral exceeds their number
TakeRows(rows, numeral) ==
    IF NumeralLeq(numeral, NatToStr(Len(rows)))
    THEN SubSeq(rows, 1, StrToNat(numeral))
    ELSE rows

\* fetch_all: Ok with the rows of the result set, or SqlError
fetch_all(kind, text, n) ==
    LET ast == parse_sql(text) IN
    IF ast = ParseError THEN SqlError
    ELSE IF StatementTable(ast) # TableName THEN SqlError
    ELSE IF ast.kind # "Query" THEN SqlRows(<<>>)
    ELSE IF ast.limit.tag = "Expr" THEN SqlError
    ELSE IF \E i \in 1..Len(SelectedFields(ast)) : FieldIndex(SelectedFields(ast)[i]) = 0
         THEN SqlError
    ELSE LET fields == SelectedFields(ast)
             columns == [i \in 1..Len(fields) |->
                           [name |-> fields[i], type |-> ColumnType(kind, fields[i])]]
             kept == SelectSeq(TableContents(n), LAMBDA row : RowMatches(ast, row))
             taken == IF ast.limit.tag = "Number" THEN TakeRows(kept, ast.limit.s)
                      ELSE kept
         IN  SqlRows([r \in 1..Len(taken) |->
                        [columns |-> columns,
                         values |-> [i \in 1..Len(fields) |->
                                        taken[r][FieldIndex(fields[i])]]]])

----------------------------------------------------------------------------
(* Result Normalizer: the relational arms *)

JsonNull == Bson("Null", "")

\* T::compatible(type) of sqlx for the three Rust types the arms ask for
Compatible(kind, rust_type, type) ==
    CASE kind = "MySQL" ->
            (CASE rust_type = "String" -> type \in {"VARCHAR", "CHAR", "TEXT"}
               [] rust_type = "i64" ->
                    type \in {"TINYINT", "SMALLINT", "INT", "MEDIUMINT", "BIGINT"}
               [] rust_type = "f64" -> type \in {"FLOAT", "DOUBLE"})
      [] kind = "PostgreSQL" ->
            (CASE rust_type = "String" -> type \in {"TEXT", "VARCHAR", "CHAR", "NAME"}
               [] rust_type = "i64" -> type = "INT8"
               [] rust_type = "f64" -> type = "FLOAT8")
      [] kind = "SQLite" ->
            (CASE rust_type = "String" -> type = "TEXT"
               [] rust_type = "i64" -> type = "INTEGER"
               [] rust_type = "f64" -> type = "REAL")

DecodeErr == Bson("Err", "")

\* row.try_get::<T, _>(i): the JSON value, or DecodeErr
try_get(kind, rust_type, row, i) ==
    IF row.values[i] # Null /\ Compatible(kind, rust_type, row.columns[i].type)
    THEN Bson(IF rust_type = "String" THEN "String" ELSE "Number", row.values[i])
    ELSE DecodeErr

\* Result::unwrap_or(json!(null))
UnwrapOrNull(decoded) == IF decoded = DecodeErr THEN JsonNull ELSE decoded

\* the chain cut after its second attempt
mysql_value_without_f64(row, i) ==
    IF try_get("MySQL", "String", row, i) # DecodeErr THEN try_get("MySQL", "String", row, i)
    ELSE IF try_get("MySQL", "i64", row, i) # DecodeErr THEN try_get("MySQL", "i64", row, i)
    ELSE JsonNull

\* the MySQL arm: String, then i64, then f64, then null
mysql_value(row, i) ==
    IF try_get("MySQL", "String", row, i) # DecodeErr THEN try_get("MySQL", "String", row, i)
    ELSE IF try_get("MySQL", "i64", row, i) # DecodeErr THEN try_get("MySQL", "i64", row, i)
    ELSE IF try_get("MySQL", "f64", row, i) # DecodeErr THEN try_get("MySQL", "f64", row, i)
    ELSE JsonNull

\* the PostgreSQL arm: one attempt chosen by the type name
postgres_value(row, i) ==
    LET type == row.columns[i].type IN
    IF type \in {"INT2", "INT4", "INT8"} THEN UnwrapOrNull(try_get("PostgreSQL", "i64", row, i))
    ELSE IF type \in {"FLOAT4", "FLOAT8", "NUMERIC"}
         THEN UnwrapOrNull(try_get("PostgreSQL", "f64", row, i))
    ELSE UnwrapOrNull(try_get("PostgreSQL", "String", row, i))

\* the SQLite arm: one attempt chosen by the type name
sqlite_value(row, i) ==
    LET type == row.columns[i].type IN
    IF type = "INTEGER" THEN UnwrapOrNull(try_get("SQLite", "i64", row, i))
    ELSE IF type = "REAL" THEN UnwrapOrNull(try_get("SQLite", "f64", row, i))
    ELSE UnwrapOrNull(try_get("SQLite", "String", row, i))

row_value(kind, row, i) ==
    CASE kind = "MySQL" -> mysql_value(row, i)
      [] kind = "PostgreSQL" -> postgres_value(row, i)
      [] kind = "SQLite" -> sqlite_value(row, i)

QueryResult(columns, rows, row_count) ==
    [status |-> "ok", error |-> "", columns |-> columns, rows |-> rows,
     row_count |-> row_count]

ErrorResponse(error) ==
    [status |-> "error", error |-> error, columns |-> <<>>, rows |-> <<>>, row_count |-> 0]

\* columns from rows.first(), else the empty list
relational_columns(rows) ==
    IF Len(rows) > 0
    THEN [i \in 1..Len(rows[1].columns) |-> rows[1].columns[i].name]
    ELSE <<>>

relational_result(kind, rows) ==
    QueryResult(relational_columns(rows),
                [r \in 1..Len(rows) |->
                    [i \in 1..Len(rows[r].columns) |-> row_value(kind, rows[r], i)]],
                Len(rows))

----------------------------------------------------------------------------
(* The document-store driver: what find returns for the call it is handed *)

MaxDocs == 2

CollectionName == "users"

\* the documents a collection may hold: their field sets differ
DocPool ==
    << << <<"_id", Bson("ObjectId", "a1")>>, <<"name", Bson("String", "ann")>>,
          <<"Age", Bson("Int32", "30")>> >>,
       << <<"_id", Bson("ObjectId", "b2")>>, <<"name", Bson("String", "bob")>> >>,
       << <<"_id", Bson("ObjectId", "c3")>>, <<"email", Bson("Null", "")>> >> >>

RECURSIVE Arrangements(_, _)
\* the sequences of at most n distinct members of S
Arrangements(S, n) ==
    IF n = 0 THEN {<<>>}
    ELSE {<<>>} \cup
         UNION {{<<x>> \o rest : rest \in Arrangements(S \ {x}, n - 1)} : x \in S}

\* the contents the collection may have when find runs
CollectionContents ==
    {[i \in 1..Len(order) |-> DocPool[order[i]]] :
        order \in Arrangements(1..Len(DocPool), MaxDocs)}

\* a document passes the filter: equality on plain keys; an operator key
\* ($where, ...) is evaluated by the server and keeps the document
DocMatches(query, doc) ==
    \A i \in 1..Len(query) :
        \/ Ch(query[i][1], 1) = "$"
        \/ HasKey(doc, query[i][1]) /\ DocGet(doc, query[i][1]).v = query[i][2].v

IsIncluded(value) == value.k \in {"Int32", "Double"} /\ value.v \notin {"0", "0.0"}

\* the fields of a document a projection keeps: an inclusion list keeps the
\* listed fields and _id unless _id is excluded; an exclusion list drops them
ProjectDoc(projection, doc) ==
    LET inclusive == \E i \in 1..Len(projection) :
                        projection[i][1] # "_id" /\ IsIncluded(projection[i][2])
        keeps(key) ==
            IF HasKey(projection, key) THEN IsIncluded(DocGet(projection, key))
            ELSE IF inclusive THEN key = "_id" ELSE TRUE
    IN  SelectSeq(doc, LAMBDA field : keeps(field[1]))

\* the first documents a limit keeps: zero is no limit
TakeDocs(docs, numeral) ==
    IF numeral = "0" THEN docs ELSE TakeRows(docs, numeral)

\* collection.find(query, options) and try_collect: the returned documents
find(call, contents) ==
    IF call.collection # CollectionName THEN <<>>
    ELSE LET matched == IF call.query.k = "None" THEN contents
                        ELSE SelectSeq(contents, LAMBDA doc : DocMatches(call.query.v, doc))
             shaped == IF call.projection.k = "None" THEN matched
                       ELSE [i \in 1..Len(matched) |->
                                ProjectDoc(call.projection.v, matched[i])]
         IN  TakeDocs(shaped, call.limit)

----------------------------------------------------------------------------
(* Result Normalizer: the document-store arm *)

\* serde_json::to_value of a BSON value: an ObjectId becomes {"$oid": hex}
bson_to_json(value) ==
    CASE value.k = "ObjectId" -> Bson("Object", <<<<"$oid", Bson("String", value.v)>>>>)
      [] value.k \in {"Int32", "Int64", "Double"} -> Bson("Number", value.v)
      [] OTHER -> value

RECURSIVE sort(_)
\* Vec::sort of the collected names: ascending in String's order
sort(names) ==
    IF names = {} THEN <<>>
    ELSE LET least == CHOOSE x \in names : \A y \in names \ {x} : StrLess(x, y)
         IN  <<least>> \o sort(names \ {least})

RECURSIVE first_seen(_, _)
\* the names in the order the documents first show them
first_seen(names, seen) ==
    IF Len(names) = 0 THEN <<>>
    ELSE IF names[1] \in seen THEN first_seen(Tail(names), seen)
    ELSE <<names[1]>> \o first_seen(Tail(names), seen \cup {names[1]})

RECURSIVE AllKeys(_)
AllKeys(documents) ==
    IF Len(documents) = 0 THEN <<>>
    ELSE DocKeys(documents[1]) \o AllKeys(Tail(documents))

\* the column list left as collected, without the sort
mongo_columns_unsorted(documents) == first_seen(AllKeys(documents), {})

\* all_columns collected into a set, then sorted
mongo_columns(documents) ==
    sort({AllKeys(documents)[i] : i \in 1..Len(AllKeys(documents))})

\* a row that holds only the fields the document has
mongo_row_present_only(doc, columns) ==
    LET present == SelectSeq(columns, LAMBDA col : HasKey(doc, col)) IN
    [j \in 1..Len(present) |-> bson_to_json(DocGet(doc, present[j]))]

\* one value per column: the document's, or null
mongo_row(doc, columns) ==
    [j \in 1..Len(columns) |->
        IF HasKey(doc, columns[j]) THEN bson_to_json(DocGet(doc, columns[j]))
        ELSE JsonNull]

mongo_result(documents) ==
    LET columns == mongo_columns(documents)
        json_rows == [r \in 1..Len(documents) |-> mongo_row(documents[r], columns)]
    IN  QueryResult(columns, json_rows, Len(json_rows))

----------------------------------------------------------------------------
(* Guard inputs *)

ProductsQuery ==
    "SELECT id, name FROM products WHERE category = 'electronics' LIMIT 10"

GuardHeads == {"SELECT * FROM t WHERE id=1", ProductsQuery, "1"}

GuardMiddles ==
    {"", " UNION SELECT pass FROM admins", " union\nselect 1", "|UNION  SELECT 1",
     "; DROP TABLE t", ";drop table t ", " OR 1=1", " AND name = '' OR ''='",
     " -- c", " ;", " EXEC (1)", " Create  Database d", " alter table t add c",
     " Drop\tTable t", "/* c", " xunion select 1", " -- c\nx"}

GuardTails == {"", ";", " /* c */"}

GuardTexts ==
    {h \o m \o t : h \in GuardHeads, m \in GuardMiddles, t \in GuardTails}

ProbeTexts ==
    {"SELECT * FROM t WHERE id=1", "SELECT * FROM t WHERE id=1; DROP TABLE t",
     ProductsQuery}

----------------------------------------------------------------------------
(* The guard as a state machine: requests arrive, each is checked once *)

NotLimited == "<none>"

\* the limit clamp at rest
LimitIdle == limited = NotLimited

NoFn == [fn |-> "none", arg |-> <<>>]

\* the rate limiter, the template manager and the connection handlers at rest
SvcIdle ==
    /\ limiter = <<>>
    /\ manager = <<>>
    /\ http = <<>>
    /\ lastConnectedAt = <<>>

\* no function called, no request to the other handlers
RestIdle ==
    /\ fnCall = NoFn
    /\ fnRet = <<>>
    /\ registry = {}
    /\ api = <<>>
    /\ SvcIdle

\* execute_query at rest
ExecIdle ==
    /\ pc = "idle"
    /\ activeIds = {2, 4}
    /\ connId = 0
    /\ conn = NoConnection
    /\ pool = "None"
    /\ driverCall = NoCall
    /\ native = <<>>
    /\ result = NoResult

GuardInit ==
    /\ sql = ""
    /\ verdict = NoVerdict
    /\ patternsReady = FALSE
    /\ probe \in ProbeTexts
    /\ probeVerdict = NoVerdict
    /\ LimitIdle
    /\ ExecIdle
    /\ RestIdle

\* a query text arrives
GuardRequest ==
    /\ sql = "" \/ verdict # NoVerdict
    /\ \E t \in GuardTexts : sql' = t
    /\ verdict' = NoVerdict
    /\ UNCHANGED <<patternsReady, probe, probeVerdict, limitVars, execVars, restVars>>

\* SqlInjectionProtection::detect_injection(&sql)
GuardCheck ==
    /\ verdict = NoVerdict
    /\ sql # ""
    /\ verdict' = detect_injection(sql)
    /\ patternsReady' = TRUE
    /\ probeVerdict' = IF sql = probe /\ probeVerdict = NoVerdict
                       THEN verdict' ELSE probeVerdict
    /\ UNCHANGED <<sql, probe, limitVars, execVars, restVars>>

GuardNext == GuardRequest \/ GuardCheck

SpecGuard == GuardInit /\ [][GuardNext]_vars

----------------------------------------------------------------------------
(* The limit clamp as a state machine: a text arrives and is clamped *)

QueryHeads ==
    {"SELECT * FROM t", "select a, b from t where a = 1",
     "Select * From users WHERE name = 'x'"}

LimitSuffixes ==
    {"", " LIMIT 0", " LIMIT 10", " limit 200", " LIMIT 1500", " LIMIT 1501",
     " Limit  5000", " LIMIT 007", " LIMIT 18446744073709551615",
     " LIMIT 18446744073709551616", " LIMIT 1000 + 1000", " LIMIT ?",
     " LIMIT ALL"}

OtherStatements ==
    {"INSERT INTO t VALUES (1)", "insert  into t values (1)",
     "UPDATE t SET a = 1", "update t set a = 2 where b = 1",
     "DELETE FROM t", "delete from t where a = 1", "DROP TABLE t",
     "drop table t"}

UnparsedHeads == {"SELEC * FROM t", "DELETE FROM t; SELECT * FROM t"}

StatementEnds == {"", ";"}

LimitTexts ==
    {h \o l \o e : h \in QueryHeads \cup UnparsedHeads, l \in LimitSuffixes,
                   e \in StatementEnds}
        \cup {h \o e : h \in OtherStatements, e \in StatementEnds}

\* the guard at rest
GuardIdle ==
    /\ verdict = NoVerdict
    /\ patternsReady = FALSE
    /\ probe = ""
    /\ probeVerdict = NoVerdict

LimitInit ==
    /\ sql = ""
    /\ limited = NotLimited
    /\ GuardIdle
    /\ ExecIdle
    /\ RestIdle

\* a statement text arrives
LimitRequest ==
    /\ sql = "" \/ limited # NotLimited
    /\ \E t \in LimitTexts : sql' = t
    /\ limited' = NotLimited
    /\ UNCHANGED <<guardVars, execVars, restVars>>

\* let limited_sql = add_limit_to_sql(&payload.sql)
LimitApply ==
    /\ sql # ""
    /\ limited = NotLimited
    /\ limited' = add_limit_to_sql(sql)
    /\ UNCHANGED <<sql, guardVars, execVars, restVars>>

LimitNext == LimitRequest \/ LimitApply

SpecLimit == LimitInit /\ [][LimitNext]_vars

----------------------------------------------------------------------------
(* execute_query as a state machine: one request at a time, one step per    *)
(* await of the handler                                                     *)

ExecTexts ==
    {"SELECT * FROM users",
     "select name from users limit 1",
     "SELECT * FROM users LIMIT 5000",
     "SELECT * FROM users; DROP TABLE users",
     "DROP TABLE users",
     "SELECT * FROM orders",
     "db.users.find()",
     "db.users.find({}).limit(5000)",
     "db.users.find({\"name\": \"ann\"}, { name: 1, _id: 0 })",
     "db.getCollection(\"users\").find({\"$where\": \"1\"}).limit(0)",
     "users"}

\* payload.connection_id: None (0), the stored ids, an id no row has
ConnectionIds == {0} \cup {StoredConnections[i].id : i \in 1..Len(StoredConnections)}
                    \cup {UnknownConnectionId}

\* the is_active columns the storage may hold
ActiveSets == {{2, 4}, {4}, {}}

\* get_connection_by_id: the positions of the rows with that id
RowsWithId(id) == {i \in 1..Len(StoredConnections) : StoredConnections[i].id = id}

\* get_active_connections().into_iter().next(): the position of the first
\* active row, 0 when there is none
FirstActive(active) ==
    IF \E i \in 1..Len(StoredConnections) : StoredConnections[i].id \in active
    THEN CHOOSE i \in 1..Len(StoredConnections) :
            /\ StoredConnections[i].id \in active
            /\ \A k \in 1..(i - 1) : StoredConnections[k].id \notin active
    ELSE 0

ExecInit ==
    /\ sql = ""
    /\ GuardIdle
    /\ LimitIdle
    /\ pc = "idle"
    /\ activeIds \in ActiveSets
    /\ connId = 0
    /\ conn = NoConnection
    /\ pool = "None"
    /\ driverCall = NoCall
    /\ native = <<>>
    /\ result = NoResult
    /\ RestIdle

\* the handler returns Err: the request ends with an error response
Fail(error) ==
    /\ result' = ErrorResponse(error)
    /\ pc' = "done"

\* a request arrives
ExecRequest ==
    /\ pc = "idle"
    /\ \E text \in ExecTexts, id \in ConnectionIds :
          /\ sql' = text
          /\ connId' = id
    /\ pc' = "resolving"
    /\ UNCHANGED <<guardVars, limitVars, activeIds, conn, pool, driverCall, native, result, restVars>>

\* the connection is resolved from the storage
ExecResolve ==
    /\ pc = "resolving"
    /\ IF connId # 0
       THEN IF RowsWithId(connId) # {}
            THEN /\ conn' = StoredConnections[CHOOSE i \in RowsWithId(connId) : TRUE]
                 /\ pc' = "building"
                 /\ UNCHANGED result
            ELSE /\ Fail("connection_not_found")
                 /\ UNCHANGED conn
       ELSE IF FirstActive(activeIds) # 0
            THEN /\ conn' = StoredConnections[FirstActive(activeIds)]
                 /\ pc' = "building"
                 /\ UNCHANGED result
            ELSE /\ Fail("no_connection")
                 /\ UNCHANGED conn
    /\ UNCHANGED <<sql, guardVars, limitVars, activeIds, connId, pool, driverCall, native, restVars>>

\* the storage query fails
ExecStorageError ==
    /\ pc = "resolving"
    /\ Fail("database_error")
    /\ UNCHANGED <<sql, guardVars, limitVars, activeIds, connId, conn, pool, driverCall, native, restVars>>

\* the connection string is built and the backend is connected to
ExecConnect ==
    /\ pc = "building"
    /\ LET conn_str == build_connection_string(conn) IN
       IF conn_str = BuildError
       THEN Fail("invalid_connection") /\ UNCHANGED pool
       ELSE IF DetectType(conn_str) = "Unsupported"
            THEN Fail("connection_failed") /\ UNCHANGED pool
            ELSE /\ pool' = DetectType(conn_str)
                 /\ pc' = "connected"
                 /\ UNCHANGED result
    /\ UNCHANGED <<sql, guardVars, limitVars, activeIds, connId, conn, driverCall, native, restVars>>

\* the backend cannot be reached
ExecConnectError ==
    /\ pc = "building"
    /\ build_connection_string(conn) # BuildError
    /\ Fail("connection_failed")
    /\ UNCHANGED <<sql, guardVars, limitVars, activeIds, connId, conn, pool, driverCall, native, restVars>>

\* the arm of the backend kind hands its query to the driver
ExecDispatch ==
    /\ pc = "connected"
    /\ driverCall' = driver_call(pool, sql)
    /\ pc' = "querying"
    /\ UNCHANGED <<sql, guardVars, limitVars, activeIds, connId, conn, pool, native, result, restVars>>

\* a relational driver returns its rows and the arm normalises them
ExecRowsReply ==
    /\ pc = "querying"
    /\ pool \in {"MySQL", "PostgreSQL", "SQLite"}
    /\ \E n \in 0..MaxRows :
          /\ fetch_all(pool, driverCall.text, n).ok
          /\ native' = fetch_all(pool, driverCall.text, n).rows
    /\ result' = relational_result(pool, native')
    /\ pc' = "done"
    /\ UNCHANGED <<sql, guardVars, limitVars, activeIds, connId, conn, pool, driverCall, restVars>>

\* the document store returns its documents and the arm normalises them
ExecDocumentsReply ==
    /\ pc = "querying"
    /\ pool = "MongoDB"
    /\ \E contents \in CollectionContents : native' = find(driverCall, contents)
    /\ result' = mongo_result(native')
    /\ pc' = "done"
    /\ UNCHANGED <<sql, guardVars, limitVars, activeIds, connId, conn, pool, driverCall, restVars>>

\* the driver reports an error
ExecDriverError ==
    /\ pc = "querying"
    /\ Fail("query_error")
    /\ UNCHANGED <<sql, guardVars, limitVars, activeIds, connId, conn, pool, driverCall, native, restVars>>

\* the response is sent; the handler is ready for the next request
ExecRespond ==
    /\ pc = "done"
    /\ pc' = "idle"
    /\ sql' = ""
    /\ connId' = 0
    /\ conn' = NoConnection
    /\ pool' = "None"
    /\ driverCall' = NoCall
    /\ native' = <<>>
    /\ result' = NoResult
    /\ UNCHANGED <<guardVars, limitVars, activeIds, restVars>>

ExecNext ==
    \/ ExecRequest
    \/ ExecResolve
    \/ ExecStorageError
    \/ ExecConnect
    \/ ExecConnectError
    \/ ExecDispatch
    \/ ExecRowsReply
    \/ ExecDocumentsReply
    \/ ExecDriverError
    \/ ExecRespond

SpecExec == ExecInit /\ [][ExecNext]_vars

----------------------------------------------------------------------------
(* get_execution_plan as a state machine: one request at a time, one step   *)
(* per await of the handler                                                 *)

\* the EXPLAIN rows or documents a backend may return
MaxPlanRows == 3

PlanTexts ==
    {"SELECT * FROM users",
     "select name from users limit 1",
     "SELECT * FROM users LIMIT 5000",
     "SELECT * FROM users u JOIN orders o ON u.id = o.user_id",
     "db.users.find({\"name\": \"ann\"}, {\"name\": 1}).limit(5000)",
     "db.getCollection(\"users\").find({}, { name: 1 })",
     "users"}

\* the statement with a row cap, as execute_query would send it
explain_sql_limited(kind, text) ==
    CASE kind = "MySQL" -> "EXPLAIN " \o add_limit_to_sql(text)
      [] kind = "PostgreSQL" ->
            "EXPLAIN (ANALYZE false, VERBOSE false, FORMAT TEXT) " \o add_limit_to_sql(text)
      [] kind = "SQLite" -> "EXPLAIN QUERY PLAN " \o add_limit_to_sql(text)

\* format!("EXPLAIN ... {}", payload.sql) of the relational arms
explain_sql(kind, text) ==
    CASE kind = "MySQL" -> "EXPLAIN " \o text
      [] kind = "PostgreSQL" -> "EXPLAIN (ANALYZE false, VERBOSE false, FORMAT TEXT) " \o text
      [] kind = "SQLite" -> "EXPLAIN QUERY PLAN " \o text

\* the collection name of the MongoDB arm: the text before ".find("
plan_collection_name(text) ==
    LET head == SplitOn(text, ".find(")[1] IN
    IF StartsAt(text, 1, "db.getCollection(")
    THEN IF Len(SplitOn(head, "\"")) >= 2 THEN SplitOn(head, "\"")[2]
         ELSE NthOrEmpty(SplitOn(head, "'"), 1)
    ELSE IF StartsAt(text, 1, "db.") THEN NthOrEmpty(SplitOn(head, "."), 1)
    ELSE text

\* the projection of the MongoDB arm: the second argument parsed as JSON
plan_projection(text) ==
    LET params == find_params(text) IN
    IF Len(params) >= 2 /\ Len(Trim(params[2])) > 0 /\ Trim(params[2]) # "{}"
    THEN json_to_document(Trim(params[2]))
    ELSE NoDocument

\* the explain command {explain: {find, filter, projection}, verbosity}: it
\* holds no limit
explain_command(text) ==
    [kind |-> "MongoDB", text |-> "", collection |-> plan_collection_name(Trim(text)),
     query |-> find_query(Trim(text)), projection |-> plan_projection(Trim(text)),
     limit |-> Null]

\* the match on db_manager.pool up to the driver call
explain_call(kind, text) ==
    IF kind = "MongoDB" THEN explain_command(text) ELSE SqlCall(kind, explain_sql(kind, text))

\* one plan node per EXPLAIN row, in result order
plan_nodes(rows) ==
    [n \in 1..Len(rows) |->
        LET i == n - 1 IN
        [id |-> i, parent |-> IF i > 0 THEN <<i - 1>> ELSE <<>>, detail |-> rows[n]]]

\* the single node of the MongoDB arm
mongo_plan_nodes(explain_json) == << [id |-> 0, parent |-> <<>>, detail |-> explain_json] >>

ExecutionPlanResponse(plan, advice) ==
    [status |-> "ok", error |-> "", plan |-> plan, ai_optimization_advice |-> advice]

\* the rows an EXPLAIN returns: n steps
ExplainRows(n) == [i \in 1..n |-> "SCAN users"]

PlanInit == ExecInit

\* a request arrives
PlanRequest ==
    /\ pc = "idle"
    /\ \E text \in PlanTexts, id \in ConnectionIds :
          /\ sql' = text
          /\ connId' = id
    /\ pc' = "resolving"
    /\ UNCHANGED <<guardVars, limitVars, activeIds, conn, pool, driverCall, native, result, restVars>>

\* the connection is resolved from the storage
PlanResolve ==
    /\ pc = "resolving"
    /\ IF connId # 0
       THEN IF RowsWithId(connId) # {}
            THEN /\ conn' = StoredConnections[CHOOSE i \in RowsWithId(connId) : TRUE]
                 /\ pc' = "building"
                 /\ UNCHANGED result
            ELSE /\ Fail("connection_not_found")
                 /\ UNCHANGED conn
       ELSE IF FirstActive(activeIds) # 0
            THEN /\ conn' = StoredConnections[FirstActive(activeIds)]
                 /\ pc' = "building"
                 /\ UNCHANGED result
            ELSE /\ Fail("no_connection")
                 /\ UNCHANGED conn
    /\ UNCHANGED <<sql, guardVars, limitVars, activeIds, connId, pool, driverCall, native, restVars>>

\* the storage query fails
PlanStorageError ==
    /\ pc = "resolving"
    /\ Fail("database_error")
    /\ UNCHANGED <<sql, guardVars, limitVars, activeIds, connId, conn, pool, driverCall, native, restVars>>

\* the connection string is built and the backend is connected to
PlanConnect ==
    /\ pc = "building"
    /\ LET conn_str == build_connection_string(conn) IN
       IF conn_str = BuildError
       THEN Fail("invalid_connection") /\ UNCHANGED pool
       ELSE IF DetectType(conn_str) = "Unsupported"
            THEN Fail("connection_failed") /\ UNCHANGED pool
            ELSE /\ pool' = DetectType(conn_str)
                 /\ pc' = "connected"
                 /\ UNCHANGED result
    /\ UNCHANGED <<sql, guardVars, limitVars, activeIds, connId, conn, driverCall, native, restVars>>

\* the backend cannot be reached
PlanConnectError ==
    /\ pc = "building"
    /\ build_connection_string(conn) # BuildError
    /\ Fail("connection_failed")
    /\ UNCHANGED <<sql, guardVars, limitVars, activeIds, connId, conn, pool, driverCall, native, restVars>>

\* the arm of the backend kind hands its EXPLAIN to the driver
PlanExplain ==
    /\ pc = "connected"
    /\ driverCall' = explain_call(pool, sql)
    /\ pc' = "explaining"
    /\ UNCHANGED <<sql, guardVars, limitVars, activeIds, connId, conn, pool, native, result, restVars>>

\* a relational backend returns its EXPLAIN rows; the arm numbers them and
\* the AI service may add its advice
PlanRowsReply ==
    /\ pc = "explaining"
    /\ pool \in {"MySQL", "PostgreSQL", "SQLite"}
    /\ \E n \in 0..MaxPlanRows, advice \in {Null, "advice"} :
          /\ native' = ExplainRows(n)
          /\ result' = ExecutionPlanResponse(plan_nodes(native'), advice)
    /\ pc' = "done"
    /\ UNCHANGED <<sql, guardVars, limitVars, activeIds, connId, conn, pool, driverCall, restVars>>

\* the document store returns its explain document
PlanDocumentReply ==
    /\ pc = "explaining"
    /\ pool = "MongoDB"
    /\ \E advice \in {Null, "advice"} :
          /\ native' = <<"{\"queryPlanner\": {}}">>
          /\ result' = ExecutionPlanResponse(mongo_plan_nodes(native'[1]), advice)
    /\ pc' = "done"
    /\ UNCHANGED <<sql, guardVars, limitVars, activeIds, connId, conn, pool, driverCall, restVars>>

\* the backend rejects the EXPLAIN
PlanExplainError ==
    /\ pc = "explaining"
    /\ Fail("explain_error")
    /\ UNCHANGED <<sql, guardVars, limitVars, activeIds, connId, conn, pool, driverCall, native, restVars>>

\* the response is sent; the handler is ready for the next request
PlanRespond ==
    /\ pc = "done"
    /\ pc' = "idle"
    /\ sql' = ""
    /\ connId' = 0
    /\ conn' = NoConnection
    /\ pool' = "None"
    /\ driverCall' = NoCall
    /\ native' = <<>>
    /\ result' = NoResult
    /\ UNCHANGED <<guardVars, limitVars, activeIds, restVars>>

PlanNext ==
    \/ PlanRequest
    \/ PlanResolve
    \/ PlanStorageError
    \/ PlanConnect
    \/ PlanConnectError
    \/ PlanExplain
    \/ PlanRowsReply
    \/ PlanDocumentReply
    \/ PlanExplainError
    \/ PlanRespond

SpecPlan == PlanInit /\ [][PlanNext]_vars

----------------------------------------------------------------------------
(* The helper functions called on their own: a call is made with an argument *)
(* drawn from the inputs below, and returns                                  *)

Leaves == {Bson("Int32", "18"), Bson("String", "this.age > 18")}

\* documents of scalars, with and without operators of the denylist
InnerDocuments ==
    {Bson("Document", <<>>),
     Bson("Document", <<<<"$gt", Bson("Int32", "18")>>>>),
     Bson("Document", <<<<"$function", Bson("String", "f")>>>>),
     Bson("Document", <<<<"$gt", Bson("Int32", "18")>>, <<"$eval", Bson("String", "f")>>>>),
     Bson("Document", <<<<"$eval", Bson("String", "f")>>, <<"n", Bson("Int32", "18")>>>>)}

\* arrays of scalars and documents, and documents that hold such arrays
NestedValues ==
    {Bson("Array", <<v>>) : v \in InnerDocuments}
        \cup {Bson("Array", <<Bson("Int32", "1"), Bson("Int32", "2")>>)}
        \cup {Bson("Document", <<<<"$or", Bson("Array", <<v, Bson("Int32", "1")>>)>>>>) :
                v \in InnerDocuments}

FilterValues == Leaves \cup InnerDocuments \cup NestedValues

TopKeys == {"$where", "age", "$out"}

\* the documents handed to filter_dangerous_operators: up to two members
FilterDocuments ==
    {<<>>}
        \cup {<<<<k, v>>>> : k \in TopKeys, v \in FilterValues}
        \cup UNION {{<<<<k1, Bson("String", "this.age > 18")>>, <<k2, v2>>>> :
                        k2 \in TopKeys \ {k1}, v2 \in FilterValues} : k1 \in TopKeys}

CallsInit ==
    /\ sql = ""
    /\ GuardIdle
    /\ LimitIdle
    /\ ExecIdle
    /\ RestIdle

\* what a call leaves alone
callRest == <<sql, guardVars, limitVars, execVars, apiVars, svcVars>>

CallFilter ==
    /\ fnCall = NoFn
    /\ \E doc \in FilterDocuments :
          /\ fnCall' = [fn |-> "filter_dangerous_operators", arg |-> doc]
          /\ fnRet' = filter_dangerous_operators(doc)
    /\ UNCHANGED callRest

MaxStages == 2

\* the stages of the pipelines handed to filter_aggregate_pipeline
Stages ==
    {<<<<"$match", Bson("Document", <<<<"age", Bson("Document",
                                        <<<<"$gt", Bson("Int32", "18")>>>>)>>>>)>>>>,
     <<<<"$match", Bson("Document", <<<<"$where", Bson("String", "f")>>,
                                      <<"age", Bson("Int32", "18")>>>>)>>>>,
     <<<<"$limit", Bson("Int32", "100")>>>>,
     <<<<"$limit", Bson("Int32", "5000")>>>>,
     <<<<"$limit", Bson("Int64", "1500")>>>>,
     <<<<"$out", Bson("String", "copy")>>>>,
     <<<<"$sort", Bson("Document", <<<<"age", Bson("Int32", "1")>>>>)>>,
       <<"$merge", Bson("String", "copy")>>>>}

RECURSIVE SeqsUpTo(_, _)
\* the sequences of at most n members of S
SeqsUpTo(S, n) ==
    IF n = 0 THEN {<<>>}
    ELSE {<<>>} \cup {<<x>> \o rest : x \in S, rest \in SeqsUpTo(S, n - 1)}

Pipelines == SeqsUpTo(Stages, MaxStages)

CallFilterPipeline ==
    /\ fnCall = NoFn
    /\ \E pipeline \in Pipelines :
          /\ fnCall' = [fn |-> "filter_aggregate_pipeline", arg |-> pipeline]
          /\ fnRet' = filter_aggregate_pipeline(pipeline)
    /\ UNCHANGED callRest

\* the value sides and pairs of the projection texts
ProjectionPairTexts ==
    {"name: 1", "_id: 0", "ok: true", "n: 12", "n: -3", "r: 1.5", "s: abc",
     "t: 12:30", "a: {x: 1, y: 2}", "tags: {$slice: [0, 5]}", "noColon"}

ProjectionTexts ==
    {"{}", "", "{ }", "{a: {b: 1}}", "{ n: 2147483648 }"}
        \cup {"{ " \o p \o " }" : p \in ProjectionPairTexts}
        \cup {"{ " \o p \o ", " \o q \o " }" : p \in ProjectionPairTexts, q \in ProjectionPairTexts}

CallProjection ==
    /\ fnCall = NoFn
    /\ \E text \in ProjectionTexts :
          /\ fnCall' = [fn |-> "parse_mongodb_projection", arg |-> text]
          /\ fnRet' = parse_mongodb_projection(text)
    /\ UNCHANGED callRest

\* the command texts handed to the find arm: a collection reference, a first
\* argument, an optional second argument and the rest of the command
FindHeads == {"db.users.find(", "db.getCollection(\"users\").find("}

FindFilters ==
    {"", " ", "{}", "{\"a\": [1, 2]}", "{\"a\": {\"b\": 1, \"c\": 2}}", "{name: 1}",
     "{\"a\": 1", "[1]", "{\"s\": \")\"}"}

FindSeconds ==
    {"", ",", ", ", ", {}", ", { }", ", {name: 1, _id: 0}", ", name", ", {a: {x: 1, y: 2}}"}

FindTails == {")", ").limit(5)", "", ", 7)", ", {\"sort\": [1, 2]}, 7)"}

FindTexts ==
    {h \o f \o s \o t : h \in FindHeads, f \in FindFilters, s \in FindSeconds, t \in FindTails}
        \cup {"users", "db.users.aggregate([])", " db.users.find({\"a\": 1}, {a: 1}) "}

\* the find argument extraction of the document-store arm
CallFindArguments ==
    /\ fnCall = NoFn
    /\ \E text \in FindTexts :
          /\ fnCall' = [fn |-> "find_arguments", arg |-> text]
          /\ fnRet' = [params |-> find_params(Trim(text)),
                       query |-> find_query(Trim(text)),
                       projection |-> find_projection(Trim(text))]
    /\ UNCHANGED callRest



\* the connections handed to build_connection_string without a raw
\* connection string: every declared kind with every combination of fields
ConnectionInputs ==
    {Connection(7, db_type, host, port, database_name, file_path, Null) :
        db_type \in {"mysql", "postgresql", "mongodb", "sqlite"},
        host \in {Null, "h"}, port \in {Null, "3306"},
        database_name \in {Null, "app"}, file_path \in {Null, "", " ", "a.db"}}

CallBuildConnection ==
    /\ fnCall = NoFn
    /\ \E connection \in ConnectionInputs :
          /\ fnCall' = [fn |-> "build_connection_string", arg |-> connection]
          /\ fnRet' = build_connection_string(connection)
    /\ UNCHANGED callRest











\* the stages of the pipelines handed to add_or_adjust_limit: $limit values
\* of every numeric type and width, and a value that is no number
LimitValues ==
    {Bson("Int32", v) : v \in {"100", "1500", "5000", "-5", "2147483647"}}
        \cup {Bson("Int64", v) : v \in {"1500", "5000", "2147483648", "4294967297",
                                        "4294968796", "9223372036854775807",
                                        "-9223372036854775808"}}
        \cup {Bson("Double", v) : v \in {"1.5", "5000.7", "99999999999.0", "-3.7"}}
        \cup {Bson("String", "10")}

LimitStages ==
    {<<<<"$limit", v>>>> : v \in LimitValues}
        \cup {<<<<"$match", Bson("Document", <<<<"age", Bson("Int32", "18")>>>>)>>>>,
              <<<<"$skip", Bson("Int32", "5")>>, <<"$limit", Bson("Int64", "4294967297")>>>>}

LimitPipelines == SeqsUpTo(LimitStages, MaxStages)

CallAdjustLimit ==
    /\ fnCall = NoFn
    /\ \E pipeline \in LimitPipelines :
          /\ fnCall' = [fn |-> "add_or_adjust_limit", arg |-> pipeline]
          /\ fnRet' = add_or_adjust_limit(pipeline)
    /\ UNCHANGED callRest

\* the cells handed to the decoders: a column of a declared type holding a
\* value or NULL
DecodeTypes(kind) ==
    CASE kind = "MySQL" -> {"VARCHAR", "TEXT", "INT", "BIGINT", "FLOAT", "DOUBLE",
                            "DATETIME", "DECIMAL"}
      [] kind = "PostgreSQL" -> {"INT2", "INT4", "INT8", "FLOAT4", "FLOAT8", "NUMERIC",
                                 "VARCHAR", "TEXT", "CHAR", "NAME", "BOOL", "UUID"}
      [] kind = "SQLite" -> {"INTEGER", "REAL", "TEXT", "BLOB", "NULL"}

DecodeCells ==
    UNION {{[kind |-> kind,
             row |-> [columns |-> <<[name |-> "c", type |-> type]>>, values |-> <<value>>]] :
                type \in DecodeTypes(kind), value \in {Null, "1", "x"}} :
           kind \in {"MySQL", "PostgreSQL", "SQLite"}}

\* the decoding of one cell in the arm of its backend
CallRowValue ==
    /\ fnCall = NoFn
    /\ \E cell \in DecodeCells :
          /\ fnCall' = [fn |-> "row_value", arg |-> cell]
          /\ fnRet' = row_value(cell.kind, cell.row, 1)
    /\ UNCHANGED callRest











\* the caller goes on
CallReturn ==
    /\ fnCall # NoFn
    /\ fnCall' = NoFn
    /\ fnRet' = <<>>
    /\ UNCHANGED callRest

CallsNext ==
    \/ CallFilter
    \/ CallFilterPipeline
    \/ CallProjection
    \/ CallFindArguments
    \/ CallBuildConnection
    \/ CallAdjustLimit
    \/ CallRowValue
    \/ CallReturn

SpecCalls == CallsInit /\ [][CallsNext]_vars

----------------------------------------------------------------------------
(* The batch and cancel handlers as a state machine: cancel requests arrive *)
(* concurrently and each runs under the registry's mutex                    *)

\* the query ids with a registered sender, and an id never registered
QueryIds == {"q1", "q2"}
UnknownQueryId == "q9"

\* the cancel requests of one run
MaxCancels == 3

\* the statements of a batch request
MaxStatements == 2
BatchInputs == SeqsUpTo({"SELECT 1", "DROP TABLE users"}, MaxStatements)

NoBatch == [statements |-> <<>>, response |-> NoResult]

\* a batch answered with an empty result list
execute_batch_query_empty_results(payload) ==
    [status |-> "ok", error |-> "", statements |-> <<>>, success_count |-> 0, error_count |-> 0]

\* execute_batch_query: the payload is not looked at
execute_batch_query(payload) == ErrorResponse("not_implemented")

\* the registry after a lookup that keeps the entry
cancellers_get(cancellers, query_id) == cancellers

\* cancellers.remove(&query_id): the registry without the entry
cancellers_remove(cancellers, query_id) == cancellers \ {query_id}

ApiInit ==
    /\ sql = ""
    /\ GuardIdle
    /\ LimitIdle
    /\ ExecIdle
    /\ fnCall = NoFn
    /\ fnRet = <<>>
    /\ SvcIdle
    /\ registry \in SUBSET QueryIds
    /\ api = [registered |-> registry, cancels |-> <<>>, handled |-> 0,
              signals |-> [q \in QueryIds |-> 0], batch |-> NoBatch]

apiRest == <<sql, guardVars, limitVars, execVars, callVars, svcVars>>

\* a batch request is answered
BatchRequest ==
    /\ \E payload \in BatchInputs :
          api' = [api EXCEPT !.batch = [statements |-> payload,
                                        response |-> execute_batch_query(payload)]]
    /\ UNCHANGED <<registry, apiRest>>

\* a cancel request arrives and waits for the registry's mutex
CancelRequest ==
    /\ Len(api.cancels) < MaxCancels
    /\ \E query_id \in QueryIds \cup {UnknownQueryId} :
          api' = [api EXCEPT !.cancels =
                     Append(@, [query_id |-> query_id, status |-> "waiting", at |-> 0])]
    /\ UNCHANGED <<registry, apiRest>>

\* a waiting request takes the mutex: the entry is removed and its sender
\* signalled, or the request is answered with query_not_found
CancelHandle ==
    /\ \E i \in 1..Len(api.cancels) :
          /\ api.cancels[i].status = "waiting"
          /\ LET query_id == api.cancels[i].query_id
                 at == api.handled + 1
             IN  IF query_id \in registry
                 THEN /\ registry' = cancellers_remove(registry, query_id)
                      /\ api' = [api EXCEPT !.cancels[i].status = "ok",
                                            !.cancels[i].at = at,
                                            !.handled = at,
                                            !.signals[query_id] = @ + 1]
                 ELSE /\ registry' = registry
                      /\ api' = [api EXCEPT !.cancels[i].status = "query_not_found",
                                            !.cancels[i].at = at,
                                            !.handled = at]
    /\ UNCHANGED apiRest

ApiNext ==
    \/ BatchRequest
    \/ CancelRequest
    \/ CancelHandle

SpecApi == ApiInit /\ [][ApiNext]_vars

----------------------------------------------------------------------------
(* RateLimiter (utils/security.rs): requests arrive under a key within one  *)
(* window and each is checked once                                          *)

\* the keys the requests are made with
LimiterKeys == {"test_key", "key1", "key2"}

\* the requests made inside the window
MaxRequests == 7

\* RateLimiter::check_rate_limit: the struct holds no record of requests and
\* the key is not looked at
check_rate_limit(ip_address) == "Ok"

LimiterInit ==
    /\ sql = ""
    /\ GuardIdle
    /\ LimitIdle
    /\ ExecIdle
    /\ fnCall = NoFn
    /\ fnRet = <<>>
    /\ registry = {}
    /\ api = <<>>
    /\ limiter = [key \in LimiterKeys |-> [allowed |-> 0, refused |-> 0]]
    /\ manager = <<>>
    /\ http = <<>>
    /\ lastConnectedAt = <<>>

\* a request is checked
LimiterCheck ==
    /\ \E key \in LimiterKeys :
          /\ limiter[key].allowed + limiter[key].refused < MaxRequests
          /\ IF check_rate_limit(key) = "Ok"
             THEN limiter' = [limiter EXCEPT ![key].allowed = @ + 1]
             ELSE limiter' = [limiter EXCEPT ![key].refused = @ + 1]
    /\ UNCHANGED <<sql, guardVars, limitVars, execVars, callVars, apiVars,
                   manager, http, lastConnectedAt>>

LimiterNext == LimiterCheck

SpecLimiter == LimiterInit /\ [][LimiterNext]_vars

----------------------------------------------------------------------------
(* TemplateManager (services/templates/mod.rs): templates is a map from     *)
(* template_id to PromptTemplate, default_templates a map from template     *)
(* type to template_id; a map is a function on the set of its keys          *)

PromptTemplate(template_id, name, content) ==
    [template_id |-> template_id, name |-> name, content |-> content]

EmptyMap == [key \in {} |-> ""]

\* HashMap::insert and HashMap::remove
MapPut(map, key, value) ==
    [k \in DOMAIN map \cup {key} |-> IF k = key THEN value ELSE map[k]]
MapRemove(map, key) == [k \in DOMAIN map \ {key} |-> map[k]]

\* the three templates of initialize_default_templates; their names stand
\* for the three distinct names of the source
DefaultTemplates ==
    << PromptTemplate("sql_generation_default", "default generation", "g"),
       PromptTemplate("sql_explain_default", "default explain", "e"),
       PromptTemplate("sql_optimize_default", "default optimize", "o") >>

\* self.templates.iter().any(|(_, t)| t.name == name && t.template_id != id)
name_taken(mgr, template) ==
    \E id \in DOMAIN mgr.templates :
        /\ mgr.templates[id].name = template.name
        /\ mgr.templates[id].template_id # template.template_id

Done(mgr, outcome) == [manager |-> mgr, result |-> outcome]

\* add_template without its name check
add_template_unchecked(mgr, template) ==
    Done([mgr EXCEPT !.templates = MapPut(@, template.template_id, template)], "Ok")

add_template(mgr, template) ==
    IF name_taken(mgr, template) THEN Done(mgr, "DuplicateName")
    ELSE Done([mgr EXCEPT !.templates = MapPut(@, template.template_id, template)], "Ok")

update_template(mgr, template) ==
    IF template.template_id \notin DOMAIN mgr.templates THEN Done(mgr, "NotFound")
    ELSE IF name_taken(mgr, template) THEN Done(mgr, "DuplicateName")
    ELSE Done([mgr EXCEPT !.templates = MapPut(@, template.template_id, template)], "Ok")

delete_template(mgr, template_id) ==
    IF template_id \in DOMAIN mgr.templates
    THEN LET keys_to_remove == {key \in DOMAIN mgr.default_templates :
                                    mgr.default_templates[key] = template_id}
         IN  Done([templates |-> MapRemove(mgr.templates, template_id),
                   default_templates |->
                       [key \in DOMAIN mgr.default_templates \ keys_to_remove |->
                            mgr.default_templates[key]]], "Ok")
    ELSE Done(mgr, "NotFound")

set_default_template(mgr, template_type, template_id) ==
    Done([mgr EXCEPT !.default_templates = MapPut(@, template_type, template_id)], "Ok")

get_template(mgr, template_id) ==
    IF template_id \in DOMAIN mgr.templates THEN <<mgr.templates[template_id]>> ELSE <<>>

get_available_templates(mgr) == {mgr.templates[id] : id \in DOMAIN mgr.templates}

\* TemplateManager::new(): the three defaults added, then the three mappings
TemplateManager_new ==
    LET empty == [templates |-> EmptyMap, default_templates |-> EmptyMap]
        m1 == add_template(empty, DefaultTemplates[1]).manager
        m2 == add_template(m1, DefaultTemplates[2]).manager
        m3 == add_template(m2, DefaultTemplates[3]).manager
        d1 == set_default_template(m3, "sql_generation", "sql_generation_default").manager
        d2 == set_default_template(d1, "sql_explain", "sql_explain_default").manager
    IN  set_default_template(d2, "sql_optimize", "sql_optimize_default").manager

\* the templates and types the calls are made with
TemplateIds == {"sql_generation_default", "sql_explain_default", "sql_custom_1"}
TemplateNames == {"default generation", "default explain", "mine"}
TemplateInputs ==
    {PromptTemplate(id, name, "c") : id \in TemplateIds, name \in TemplateNames}
TemplateTypes == {"sql_generation", "sql_explain"}

ManagerInit ==
    /\ sql = ""
    /\ GuardIdle
    /\ LimitIdle
    /\ ExecIdle
    /\ fnCall = NoFn
    /\ fnRet = <<>>
    /\ registry = {}
    /\ api = <<>>
    /\ limiter = <<>>
    /\ manager = TemplateManager_new
    /\ http = <<>>
    /\ lastConnectedAt = <<>>

managerRest == <<sql, guardVars, limitVars, execVars, apiVars, limiter, http, lastConnectedAt>>

ManagerAdd ==
    /\ \E template \in TemplateInputs :
          /\ fnCall' = [fn |-> "add_template", arg |-> template]
          /\ manager' = add_template(manager, template).manager
          /\ fnRet' = add_template(manager, template).result
    /\ UNCHANGED managerRest

ManagerUpdate ==
    /\ \E template \in TemplateInputs :
          /\ fnCall' = [fn |-> "update_template", arg |-> template]
          /\ manager' = update_template(manager, template).manager
          /\ fnRet' = update_template(manager, template).result
    /\ UNCHANGED managerRest

ManagerDelete ==
    /\ \E template_id \in TemplateIds :
          /\ fnCall' = [fn |-> "delete_template", arg |-> PromptTemplate(template_id, "", "")]
          /\ manager' = delete_template(manager, template_id).manager
          /\ fnRet' = delete_template(manager, template_id).result
    /\ UNCHANGED managerRest

ManagerSetDefault ==
    /\ \E template_type \in TemplateTypes, template_id \in TemplateIds :
          /\ fnCall' = [fn |-> "set_default_template",
                        arg |-> PromptTemplate(template_id, template_type, "")]
          /\ manager' = set_default_template(manager, template_type, template_id).manager
          /\ fnRet' = "Ok"
    /\ UNCHANGED managerRest

ManagerNext ==
    \/ ManagerAdd
    \/ ManagerUpdate
    \/ ManagerDelete
    \/ ManagerSetDefault

SpecManager == ManagerInit /\ [][ManagerNext]_vars

----------------------------------------------------------------------------
(* The template routes (api/routes.rs).  main.rs builds one TemplateManager *)
(* and hands it to the router as Extension(template_manager); a handler's   *)
(* Extension(template_manager) argument is a clone of that value made for   *)
(* the request, and is dropped when the handler returns.  manager is the    *)
(* layer's value, http the exchanges answered so far.                       *)

MaxExchanges == 3

TemplateErrorText(e) ==
    IF e = "NotFound" THEN "Template not found" ELSE "Duplicate template name"

\* default_templates.values().any(|default_id| default_id == template_id)
is_default(mgr, template_id) ==
    \E key \in DOMAIN mgr.default_templates : mgr.default_templates[key] = template_id

TemplateResponse(mgr, template) ==
    [template_id |-> template.template_id, name |-> template.name,
     content |-> template.content, is_default |-> is_default(mgr, template.template_id)]

Answer(status, error, body) == [status |-> status, error |-> error, body |-> body]

\* get_templates: template_type is <<>> for None, <<tt>> for Some(tt)
handle_get_templates(template_manager, template_type) ==
    LET templates == get_available_templates(template_manager)
        filtered_templates ==
            IF template_type # <<>>
            THEN {t \in templates : Contains(t.template_id, template_type[1])}
            ELSE templates
    IN  Answer(200, "", {TemplateResponse(template_manager, t) : t \in filtered_templates})

handle_get_template(template_manager, template_id) ==
    IF get_template(template_manager, template_id) # <<>>
    THEN Answer(200, "",
                {TemplateResponse(template_manager,
                                  get_template(template_manager, template_id)[1])})
    ELSE Answer(404, "template_not_found", {})

\* create_template: uuid stands for Uuid::new_v4(); the response is built
\* from the request, is_default: false
handle_create_template(template_manager, template_type, name, uuid) ==
    LET template_id == template_type \o "_" \o uuid
        prompt_template == PromptTemplate(template_id, name, "c")
        added == add_template(template_manager, prompt_template)
    IN  IF added.result = "Ok"
        THEN Answer(200, "", {[template_id |-> template_id, name |-> name,
                               content |-> "c", is_default |-> FALSE]})
        ELSE Answer(500, "template_creation_failed", {})

\* update_template: name is <<>> for None, <<n>> for Some(n)
handle_update_template(template_manager, template_id, name) ==
    IF get_template(template_manager, template_id) = <<>>
    THEN Answer(404, "template_not_found", {})
    ELSE LET template == get_template(template_manager, template_id)[1]
             updated_template ==
                 IF name # <<>> THEN [template EXCEPT !.name = name[1]] ELSE template
             updated == update_template(template_manager, updated_template)
         IN  IF updated.result = "Ok"
             THEN Answer(200, "", {TemplateResponse(updated.manager, updated_template)})
             ELSE Answer(500, "template_update_failed", {})

handle_delete_template(template_manager, template_id) ==
    IF is_default(template_manager, template_id)
    THEN Answer(400, "cannot_delete_default_template", {})
    ELSE LET deleted == delete_template(template_manager, template_id)
         IN  IF deleted.result = "Ok" THEN Answer(200, "", {})
             ELSE IF Contains(TemplateErrorText(deleted.result), "not found")
                  THEN Answer(404, "template_not_found", {})
                  ELSE Answer(500, "template_deletion_failed", {})

handle_set_default_template(template_manager, template_id) ==
    IF get_template(template_manager, template_id) = <<>>
    THEN Answer(404, "template_not_found", {})
    ELSE IF \/ Contains(template_id, "sql_generation")
            \/ Contains(template_id, "sql_explain")
            \/ Contains(template_id, "sql_optimize")
         THEN Answer(200, "", {})
         ELSE Answer(400, "invalid_template_type", {})

\* the requests made
RequestTypes == {"sql_generation"}
RequestNames == {"mine", "default explain"}
RequestUuids == {"u1", "u2"}
RequestIds == {"sql_generation_u1", "sql_generation_u2", "sql_explain_default"}

Exchange(op, id, name, answer) ==
    [op |-> op, id |-> id, name |-> name, status |-> answer.status,
     error |-> answer.error, body |-> answer.body]

TemplatesInit ==
    /\ sql = ""
    /\ GuardIdle
    /\ LimitIdle
    /\ ExecIdle
    /\ fnCall = NoFn
    /\ fnRet = <<>>
    /\ registry = {}
    /\ api = <<>>
    /\ limiter = <<>>
    /\ manager = TemplateManager_new
    /\ http = <<>>
    /\ lastConnectedAt = <<>>

templatesRest ==
    <<sql, guardVars, limitVars, execVars, callVars, apiVars, limiter, lastConnectedAt>>

\* every handler works on its own clone of the layer's manager: whatever the
\* handler does to the clone, the layer's value stays as main.rs built it
TemplatesList ==
    /\ Len(http) < MaxExchanges
    /\ \E template_type \in {<<>>} \cup {<<tt>> : tt \in RequestTypes} :
          http' = Append(http, Exchange("get_templates", "", "",
                                        handle_get_templates(manager, template_type)))
    /\ manager' = manager
    /\ UNCHANGED templatesRest

TemplatesGet ==
    /\ Len(http) < MaxExchanges
    /\ \E template_id \in RequestIds :
          http' = Append(http, Exchange("get_template", template_id, "",
                                        handle_get_template(manager, template_id)))
    /\ manager' = manager
    /\ UNCHANGED templatesRest

TemplatesCreate ==
    /\ Len(http) < MaxExchanges
    /\ \E template_type \in RequestTypes, name \in RequestNames, uuid \in RequestUuids :
          http' = Append(http, Exchange("create_template", template_type \o "_" \o uuid, name,
                            handle_create_template(manager, template_type, name, uuid)))
    /\ manager' = manager
    /\ UNCHANGED templatesRest

TemplatesUpdate ==
    /\ Len(http) < MaxExchanges
    /\ \E template_id \in RequestIds, name \in {<<>>} \cup {<<n>> : n \in RequestNames} :
          http' = Append(http, Exchange("update_template", template_id,
                            IF name = <<>> THEN "" ELSE name[1],
                            handle_update_template(manager, template_id, name)))
    /\ manager' = manager
    /\ UNCHANGED templatesRest

TemplatesDelete ==
    /\ Len(http) < MaxExchanges
    /\ \E template_id \in RequestIds :
          http' = Append(http, Exchange("delete_template", template_id, "",
                                        handle_delete_template(manager, template_id)))
    /\ manager' = manager
    /\ UNCHANGED templatesRest

TemplatesSetDefault ==
    /\ Len(http) < MaxExchanges
    /\ \E template_id \in RequestIds :
          http' = Append(http, Exchange("set_default_template", template_id, "",
                                        handle_set_default_template(manager, template_id)))
    /\ manager' = manager
    /\ UNCHANGED templatesRest

TemplatesNext ==
    \/ TemplatesList
    \/ TemplatesGet
    \/ TemplatesCreate
    \/ TemplatesUpdate
    \/ TemplatesDelete
    \/ TemplatesSetDefault

SpecTemplates == TemplatesInit /\ [][TemplatesNext]_vars

----------------------------------------------------------------------------
(* toggle_connection_active (api/routes.rs, db/local_storage.rs): the       *)
(* handler reads the connection, computes the flipped flag and writes it    *)
(* with a second statement; each await is a step, and requests overlap.     *)
(* http holds the toggle requests, each at its own position.                *)

MaxToggles == 3

\* the connections toggled: one stored active, one stored inactive, one unknown
ToggleIds == {2, 3, UnknownConnectionId}

StoredIds == {StoredConnections[i].id : i \in 1..Len(StoredConnections)}

\* the is_active column when the requests start
InitiallyActive == {2, 4}

\* Self::current_timestamp() at the time of the write
Timestamps == {1, 2}

ToggleRequest(id) ==
    [op |-> "toggle_connection_active", id |-> id, pc |-> "get_connection",
     new_active_state |-> FALSE, status |-> 0, error |-> ""]

ToggleInit ==
    /\ sql = ""
    /\ GuardIdle
    /\ LimitIdle
    /\ pc = "idle"
    /\ activeIds = InitiallyActive
    /\ connId = 0
    /\ conn = NoConnection
    /\ pool = "None"
    /\ driverCall = NoCall
    /\ native = <<>>
    /\ result = NoResult
    /\ fnCall = NoFn
    /\ fnRet = <<>>
    /\ registry = {}
    /\ api = <<>>
    /\ limiter = <<>>
    /\ manager = <<>>
    /\ http = <<>>
    /\ lastConnectedAt = [id \in StoredIds |-> IF id \in InitiallyActive THEN <<0>> ELSE <<>>]

toggleRest ==
    <<sql, guardVars, limitVars, pc, connId, conn, pool, driverCall, native, result,
      callVars, apiVars, limiter, manager>>

\* a request arrives
ToggleArrive ==
    /\ Len(http) < MaxToggles
    /\ \E id \in ToggleIds : http' = Append(http, ToggleRequest(id))
    /\ UNCHANGED <<activeIds, lastConnectedAt, toggleRest>>

\* storage.get_connection(id).await and new_active_state = !connection.is_active
ToggleGetConnection ==
    /\ \E i \in DOMAIN http :
          /\ http[i].pc = "get_connection"
          /\ http' = [http EXCEPT ![i] =
                IF http[i].id \notin StoredIds
                THEN [http[i] EXCEPT !.pc = "done", !.status = 404, !.error = "not_found"]
                ELSE [http[i] EXCEPT !.pc = "toggle_connection_active",
                                     !.new_active_state = ~(http[i].id \in activeIds)]]
    /\ UNCHANGED <<activeIds, lastConnectedAt, toggleRest>>

\* storage.toggle_connection_active(id, new_active_state).await: one UPDATE
\* of is_active and last_connected_at, then the success response
ToggleUpdate ==
    /\ \E i \in DOMAIN http, now \in Timestamps :
          /\ http[i].pc = "toggle_connection_active"
          /\ activeIds' = IF http[i].new_active_state
                          THEN activeIds \cup {http[i].id}
                          ELSE activeIds \ {http[i].id}
          /\ lastConnectedAt' = [lastConnectedAt EXCEPT ![http[i].id] =
                                    IF http[i].new_active_state THEN <<now>> ELSE <<>>]
          /\ http' = [http EXCEPT ![i] = [http[i] EXCEPT !.pc = "done", !.status = 200]]
    /\ UNCHANGED toggleRest

ToggleNext ==
    \/ ToggleArrive
    \/ ToggleGetConnection
    \/ ToggleUpdate

SpecToggle == ToggleInit /\ [][ToggleNext]_vars

----------------------------------------------------------------------------
(* Claims about the limit clamp (SpecLimit) *)

\* the text ends with the words of w
EndsWith(s, w) == StartsAt(s, Len(s) - Len(w) + 1, w)

\* the decimal numeral of min(N, 1500), N given as a numeral
ClampedNumeral(n) == IF NumeralLeq(n, "1500") THEN StripZeros(n) ELSE "1500"

\* C3: a text that parses as one query statement without a LIMIT clause is
\* returned as a query statement whose LIMIT is exactly 200.
C3_DefaultLimit200 ==
    (limited # NotLimited /\ parse_sql(sql).kind = "Query"
        /\ parse_sql(sql).limit = NoLimit)
    => /\ parse_sql(limited).kind = "Query"
       /\ parse_sql(limited).limit = NumberLimit("200")
       /\ parse_sql(limited).body = parse_sql(sql).body
       /\ EndsWith(limited, " LIMIT 200")

\* a lower-case query without LIMIT has been clamped
C3_Witness ==
    /\ limited # NotLimited
    /\ parse_sql(sql).kind = "Query"
    /\ Find(to_lowercase(sql), "limit") = 0
    /\ sql # to_uppercase(sql)
    /\ EndsWith(limited, " LIMIT 200")

\* C4 (as claimed): a query with LIMIT N, N a non-negative integer literal of
\* any size, is returned with LIMIT min(N, 1500).
C4_LiteralClamped ==
    (limited # NotLimited /\ parse_sql(sql).kind = "Query"
        /\ parse_sql(sql).limit.tag = "Number")
    => parse_sql(limited).limit = NumberLimit(ClampedNumeral(parse_sql(sql).limit.s))

\* C5 (as claimed): a text that parses as one statement that is not a query
\* is returned as the same text.
C5_TextUnchanged ==
    (limited # NotLimited /\ parse_sql(sql).kind \notin {"Query", "Error"})
    => limited = sql

\* the tokens of a text with letter case folded and statement ends dropped
FoldedTokens(text) ==
    LET toks == SelectSeq(Tokenize(text), LAMBDA t : t # ";")
    IN  [i \in 1..Len(toks) |-> Kw(toks[i])]

\* the text is in the serialiser's form: upper-case keywords, single blanks,
\* no statement end
IsSerialisedForm(text) == text = JoinTokens(Canonical(Tokenize(text)))

\* C5 (amended): a text that parses as one statement that is not a query is
\* returned as that statement serialised again: the same statement, the same
\* tokens in the same order up to the case of keywords, no LIMIT added; the
\* text is the input text whenever the input is in the serialiser's form.
C5_StatementUnchanged ==
    (limited # NotLimited /\ parse_sql(sql).kind \notin {"Query", "Error"})
    => /\ parse_sql(limited) = parse_sql(sql)
       /\ FoldedTokens(limited) = FoldedTokens(sql)
       /\ KwIndex(Tokenize(limited), "limit") = 0
       /\ IsSerialisedForm(sql) => limited = sql

\* a non-query statement in the serialiser's form has come back unchanged
C5_Witness ==
    /\ limited # NotLimited
    /\ parse_sql(sql).kind = "Update"
    /\ IsSerialisedForm(sql)
    /\ limited = sql

----------------------------------------------------------------------------
(* Claims about the Injection Guard (SpecGuard) *)

MatchingPatterns(s) == {i \in 1..NumPatterns : PatternMatches(i, s)}

SetMin(S) == CHOOSE m \in S : \A n \in S : m <= n

\* C6: the verdict is decided by the lower-cased text alone: it is Err with
\* the reason of the lowest-numbered of the seven rules that matches; the
\* metacharacter pass decides only when none of the seven matches; it is Ok
\* exactly when no rule and no listed substring matches; and a later call on
\* a text returns what the first call on that text returned.
C6_FirstRuleDecides ==
    verdict # NoVerdict =>
        LET L == to_lowercase(sql)
            M == MatchingPatterns(L)
            meta == contains_dangerous_metacharacters(L)
        IN  /\ M # {} => verdict = Unsafe(PatternReason(SetMin(M)))
            /\ (M = {} /\ meta) => verdict = Unsafe(MetacharReason)
            /\ verdict = Safe <=> (M = {} /\ ~meta)
            /\ verdict.tag \in {"ok", "err"}
            /\ (sql = probe /\ probeVerdict # NoVerdict) => verdict = probeVerdict

\* an upper-case text that only the substring pass rejects
C6_Witness ==
    /\ verdict = Unsafe(MetacharReason)
    /\ sql # to_lowercase(sql)
    /\ MatchingPatterns(to_lowercase(sql)) = {}
    /\ ~contains_dangerous_metacharacters(sql)

\* whitespace followed by the words "union select", in any letter case
HasWsUnionSelect(t) ==
    LET L == to_lowercase(t) IN
    \E i \in 1..Len(L) : IsWs(Ch(L, i)) /\ StartsAt(L, i + 1, "union select")

\* a ';' followed, after optional whitespace, by the start of another token
HasSecondStatement(t) ==
    \E i \in 1..Len(t) : \E j \in (i + 1)..Len(t) :
        Ch(t, i) = ";" /\ AllWs(t, i + 1, j - 1) /\ IsWord(Ch(t, j))

----------------------------------------------------------------------------
(* Claims about execute_query (SpecExec) *)

Relational == {"MySQL", "PostgreSQL", "SQLite"}

\* C1: in execute_query the Injection Guard is evaluated on the query text
\* after the connection is resolved and before any driver call: a text that
\* detect_injection rejects is never handed to a backend driver and its
\* request never ends in a successful result.
C1_GuardBeforeDriver ==
    detect_injection(sql) # Safe =>
        /\ driverCall = NoCall
        /\ result.status # "ok"

\* the text has an explicit limit
HasExplicitLimit(text) == Contains(to_lowercase(text), "limit")

\* the most rows the claim allows for the text: 1500 with an explicit limit,
\* 200 without
AllowedRows(text) ==
    IF HasExplicitLimit(text) THEN NatToStr(MAX_LIMIT) ELSE NatToStr(DEFAULT_LIMIT)

Unlimited == "<unlimited>"

\* the row cap a driver call carries: the LIMIT of the query it holds, the
\* non-zero limit of the find options
RowCap(call) ==
    IF call.kind = "MongoDB"
    THEN IF call.limit = "0" THEN Unlimited ELSE call.limit
    ELSE IF parse_sql(call.text).limit.tag = "Number" THEN parse_sql(call.text).limit.s
    ELSE Unlimited

\* the call asks the driver for rows: a find, or a text that is one query
AsksForRows(call) ==
    \/ call.kind = "MongoDB"
    \/ call.kind \in Relational /\ parse_sql(call.text).kind = "Query"

\* C2: in each of the four backend arms the query or find options handed to
\* the driver carry a row cap: at most 200 when the original text has no
\* explicit limit, at most 1500 when it has one.
C2_DriverCallCapped ==
    AsksForRows(driverCall) =>
        /\ RowCap(driverCall) # Unlimited
        /\ NumeralLeq(RowCap(driverCall), AllowedRows(sql))

IsSelectStar(text) ==
    /\ parse_sql(text).kind = "Query"
    /\ parse_sql(text).body = <<"SELECT", "*", "FROM", TableName>>

\* C9: a successful SELECT * FROM <table> on a relational backend has the
\* table's field names as its columns, whatever the table holds, an empty
\* table included.
C9_SelectStarColumns ==
    (result.status = "ok" /\ pool \in Relational /\ IsSelectStar(sql)) =>
        result.columns = TableFields

\* the field names that occur in any of the documents
FieldNames(documents) ==
    UNION {{documents[r][f][1] : f \in 1..Len(documents[r])} : r \in 1..Len(documents)}

\* C10: for the document store the columns are the field names that occur in
\* any returned document, each once and in ascending order, and each row
\* holds per column the document's value for the field, or null when the
\* document lacks it.
C10_ColumnsSortedUnion ==
    (result.status = "ok" /\ pool = "MongoDB") =>
        LET columns == result.columns IN
        /\ {columns[c] : c \in 1..Len(columns)} = FieldNames(native)
        /\ \A c \in 1..(Len(columns) - 1) : StrLess(columns[c], columns[c + 1])
        /\ Len(result.rows) = Len(native)
        /\ \A r \in 1..Len(native) :
              /\ Len(result.rows[r]) = Len(columns)
              /\ \A c \in 1..Len(columns) :
                    result.rows[r][c] =
                        IF HasKey(native[r], columns[c])
                        THEN bson_to_json(DocGet(native[r], columns[c]))
                        ELSE JsonNull

\* C10 happens: two documents came back, the first shows _id and name before
\* Age, which sorts first, and the second lacks Age
C10_Witness ==
    /\ pool = "MongoDB"
    /\ result.status = "ok"
    /\ Len(native) = 2
    /\ DocKeys(native[1]) = <<"_id", "name", "Age">>
    /\ ~HasKey(native[2], "Age")
    /\ result.columns[1] = "Age"
    /\ result.rows[2][1] = JsonNull

----------------------------------------------------------------------------
(* Claims about the Dangerous-Operator Filter (SpecCalls, SpecExec) *)

RECURSIVE KeysAtAnyDepth(_)
\* the keys of a value: its own and those of every nested document and array
KeysAtAnyDepth(value) ==
    CASE value.k = "Document" ->
            {value.v[i][1] : i \in 1..Len(value.v)}
                \cup UNION {KeysAtAnyDepth(value.v[i][2]) : i \in 1..Len(value.v)}
      [] value.k = "Array" -> UNION {KeysAtAnyDepth(value.v[i]) : i \in 1..Len(value.v)}
      [] OTHER -> {}

RECURSIVE IsStrippedFrom(_, _)
\* out is the value in without its denylisted keys: the other keys in their
\* order, each with its stripped value; arrays element by element
IsStrippedFrom(out, in) ==
    /\ out.k = in.k
    /\ CASE in.k = "Document" ->
              LET kept == SelectSeq(in.v, LAMBDA m : m[1] \notin DANGEROUS_OPERATORS) IN
              /\ Len(out.v) = Len(kept)
              /\ \A i \in 1..Len(kept) :
                    /\ out.v[i][1] = kept[i][1]
                    /\ IsStrippedFrom(out.v[i][2], kept[i][2])
         [] in.k = "Array" ->
              /\ Len(out.v) = Len(in.v)
              /\ \A i \in 1..Len(in.v) : IsStrippedFrom(out.v[i], in.v[i])
         [] OTHER -> out.v = in.v

\* C11: filter_dangerous_operators removes every denylisted key at any depth,
\* inside nested documents and arrays, and nothing else: the other keys keep
\* their value and order, the result holds no denylisted key, a document
\* without denylisted keys comes back equal, and filtering twice is
\* filtering once.
C11_FilterStripsDenylist ==
    fnCall.fn = "filter_dangerous_operators" =>
        /\ IsStrippedFrom(Bson("Document", fnRet), Bson("Document", fnCall.arg))
        /\ KeysAtAnyDepth(Bson("Document", fnRet)) \cap DANGEROUS_OPERATORS = {}
        /\ (KeysAtAnyDepth(Bson("Document", fnCall.arg)) \cap DANGEROUS_OPERATORS = {}
                => fnRet = fnCall.arg)
        /\ filter_dangerous_operators(fnRet) = fnRet

\* C11 happens: a document with a denylisted key at the top and another
\* inside an array of a nested document was filtered, and a key was kept
C11_Witness ==
    /\ fnCall.fn = "filter_dangerous_operators"
    /\ Len(fnCall.arg) = 2
    /\ fnCall.arg[1][1] = "$where"
    /\ fnCall.arg[2][1] = "age"
    /\ fnCall.arg[2][2].k = "Document"
    /\ \E i \in 1..Len(fnCall.arg[2][2].v) :
          /\ fnCall.arg[2][2].v[i][2].k = "Array"
          /\ KeysAtAnyDepth(fnCall.arg[2][2].v[i][2]) \cap DANGEROUS_OPERATORS # {}
    /\ DocKeys(fnRet) = <<"age">>

\* the row cap of a stage: the numeral of its $limit
StageLimit(stage) == DocGet(stage, "$limit").v

\* C12: the pipeline filter also normalises the row cap: without a $limit
\* stage the output ends with {$limit: 200}; a $limit above 1500 becomes
\* 1500; a $limit at or below 1500 keeps its value.
C12_PipelineLimitNormalised ==
    fnCall.fn = "filter_aggregate_pipeline" =>
        IF \A i \in 1..Len(fnCall.arg) : ~HasKey(fnCall.arg[i], "$limit")
        THEN /\ Len(fnRet) = Len(fnCall.arg) + 1
             /\ HasKey(fnRet[Len(fnRet)], "$limit")
             /\ StageLimit(fnRet[Len(fnRet)]) = NatToStr(DEFAULT_LIMIT)
        ELSE \A i \in 1..Len(fnCall.arg) :
                HasKey(fnCall.arg[i], "$limit") =>
                    /\ HasKey(fnRet[i], "$limit")
                    /\ StageLimit(fnRet[i]) = NatToStr(MinWithMax(StageLimit(fnCall.arg[i])))

\* C13: in the document-store arm the Dangerous-Operator Filter runs before
\* the driver call: the filter and the projection handed to find hold no
\* denylisted operator key at any depth.
C13_FindArgumentsFiltered ==
    driverCall.kind = "MongoDB" =>
        /\ driverCall.query.k = "Some" =>
              ~contains_dangerous_operators(driverCall.query.v)
        /\ driverCall.projection.k = "Some" =>
              ~contains_dangerous_operators(driverCall.projection.v)

----------------------------------------------------------------------------
(* Claims about the Shell-Command Extractor (SpecCalls) *)

\* the text without one opening brace at its start and one closing brace at
\* its end
StripOuterBraces(s) ==
    LET a == IF Len(s) > 0 /\ Ch(s, 1) = "{" THEN SubSeq(s, 2, Len(s)) ELSE s
    IN  IF Len(a) > 0 /\ Ch(a, Len(a)) = "}" THEN SubSeq(a, 1, Len(a) - 1) ELSE a

\* the reference projection parser: outer braces trimmed, body split on
\* top-level commas, each pair split on its first colon, value coerced
ReferenceProjection(text) ==
    LET body == Trim(StripOuterBraces(Trim(text))) IN
    IF Len(body) = 0 THEN <<>>
    ELSE ProjectionPairs(split_params(body), <<>>)

\* C14: parse_mongodb_projection equals the reference parser for every
\* input: outer braces trimmed, body split on top-level commas only, each
\* pair split on its first colon, value coerced 1/0 -> integer, true/false
\* -> boolean, else 32-bit integer, else float, else string.
C14_ProjectionMatchesReference ==
    fnCall.fn = "parse_mongodb_projection" => fnRet = ReferenceProjection(fnCall.arg)

\* the number of characters of set among the first i characters of s
Count(s, i, set) == Cardinality({k \in 1..i : Ch(s, k) \in set})

\* the nesting depth after the first i characters of s, from depth base
DepthAfter(s, i, base) == base + Count(s, i, {"(", "{", "["}) - Count(s, i, {")", "}", "]"})

\* the command text after its first ".find(" (the depth there is one)
AfterFind(text) == SubSeq(Trim(text), Find(Trim(text), ".find(") + 6, Len(Trim(text)))

\* the positions at which the depth is zero and was never zero before
ClosingAt(s) ==
    {i \in 1..Len(s) : /\ DepthAfter(s, i, 1) = 0
                       /\ \A j \in 1..(i - 1) : DepthAfter(s, j, 1) # 0}

ArgumentSpan(text) ==
    LET s == AfterFind(text) IN SubSeq(s, 1, (CHOOSE i \in ClosingAt(s) : TRUE) - 1)

\* the commas of depth zero
Cuts(span) == {i \in 1..Len(span) : Ch(span, i) = "," /\ DepthAfter(span, i, 0) = 0}

NthCut(span, n) == CHOOSE c \in Cuts(span) : Cardinality({d \in Cuts(span) : d <= c}) = n

\* the pieces between the cuts; nothing follows a cut that ends the span
TopLevelPieces(span) ==
    LET cuts == Cardinality(Cuts(span))
        last == IF cuts = 0 THEN 0 ELSE NthCut(span, cuts)
        count == IF last < Len(span) THEN cuts + 1 ELSE cuts
        from(n) == IF n = 1 THEN 1 ELSE NthCut(span, n - 1) + 1
        to(n) == IF n <= cuts THEN NthCut(span, n) - 1 ELSE Len(span)
    IN  [n \in 1..count |-> Trim(SubSeq(span, from(n), to(n)))]

IsBlankArgument(piece) == Len(Trim(piece)) = 0 \/ Trim(piece) = "{}"

\* C15: for a command containing ".find(", the argument span ends where the
\* nesting depth opened by find( first returns to zero and is split at the
\* commas of depth zero only; the filter is read from the first piece and the
\* projection from the second, further pieces are ignored; when the depth
\* never returns to zero no filter and no projection are extracted.
C15_ArgumentsSplitAtTopLevel ==
    (fnCall.fn = "find_arguments" /\ Contains(Trim(fnCall.arg), ".find(")) =>
        IF ClosingAt(AfterFind(fnCall.arg)) = {}
        THEN fnRet.query = NoDocument /\ fnRet.projection = NoDocument
        ELSE LET pieces == TopLevelPieces(ArgumentSpan(fnCall.arg)) IN
             /\ fnRet.params = pieces
             /\ fnRet.query = IF Len(pieces) >= 1 /\ ~IsBlankArgument(pieces[1])
                              THEN json_to_document(pieces[1]) ELSE NoDocument
             /\ fnRet.projection = IF Len(pieces) >= 2 /\ ~IsBlankArgument(pieces[2])
                                   THEN SomeDocument(parse_mongodb_projection(pieces[2]))
                                   ELSE NoDocument

\* C15 witness: a command whose filter and projection both hold a nested
\* comma, followed by further arguments
C15_Witness ==
    /\ fnCall.fn = "find_arguments"
    /\ Len(fnRet.params) >= 4
    /\ Contains(fnRet.params[1], ",")
    /\ Contains(fnRet.params[2], ",")
    /\ fnRet.query.k = "Some"
    /\ fnRet.projection.k = "Some"

\* the first and second find argument are missing, empty or {}
NoArgument(pieces, n) == Len(pieces) < n \/ IsBlankArgument(pieces[n])

\* C16 (as stated): the filter passed to the driver is absent whenever the
\* first find argument is empty, {} or fails to parse as a JSON document, and
\* the projection is absent whenever the second argument is missing, empty,
\* {} or cannot be parsed into at least one key/value pair.
C16_AbsentWhenUnparsed ==
    fnCall.fn = "find_arguments" =>
        /\ (NoArgument(fnRet.params, 1) \/ json_to_document(fnRet.params[1]) = NoDocument)
              => fnRet.query = NoDocument
        /\ (NoArgument(fnRet.params, 2) \/ ~Contains(fnRet.params[2], ":"))
              => fnRet.projection = NoDocument

\* C16 (amended): the filter is absent whenever the first find argument is
\* empty, {} or fails to parse as a JSON document; the projection is absent
\* whenever the second argument is missing, empty or {}; any other second
\* argument is passed as a projection document, which is empty exactly when
\* no key/value pair can be read from it.
C16_AbsentOrEmptyProjection ==
    fnCall.fn = "find_arguments" =>
        /\ (NoArgument(fnRet.params, 1) \/ json_to_document(fnRet.params[1]) = NoDocument)
              => fnRet.query = NoDocument
        /\ NoArgument(fnRet.params, 2) => fnRet.projection = NoDocument
        /\ ~NoArgument(fnRet.params, 2) =>
              /\ fnRet.projection.k = "Some"
              /\ (fnRet.projection.v = <<>>) <=> ~Contains(fnRet.params[2], ":")

\* C16 witness: a first argument that is no JSON document and a second
\* argument without any key/value pair
C16_Witness ==
    /\ fnCall.fn = "find_arguments"
    /\ ~NoArgument(fnRet.params, 1)
    /\ fnRet.query = NoDocument
    /\ ~NoArgument(fnRet.params, 2)
    /\ ~Contains(fnRet.params[2], ":")
    /\ fnRet.projection = SomeDocument(<<>>)

----------------------------------------------------------------------------
(* Claims about the connection string (SpecCalls) *)

\* the scheme of the connection strings of a declared kind
SchemeOf(db_type) ==
    CASE db_type = "sqlite" -> "sqlite://"
      [] db_type = "mysql" -> "mysql://"
      [] db_type = "postgresql" -> "postgresql://"
      [] db_type = "mongodb" -> "mongodb://"

\* C17: for a connection of declared kind K without a raw connection
\* string, build_connection_string produces a connection string of K's own
\* scheme or fails with the invalid-connection error; it never produces a
\* string of another kind's scheme.
C17_OwnSchemeOrError ==
    (fnCall.fn = "build_connection_string" /\ fnCall.arg.connection_string = Null) =>
        \/ fnRet = BuildError
        \/ StartsAt(fnRet, 1, SchemeOf(fnCall.arg.db_type))

----------------------------------------------------------------------------
(* Claims about get_execution_plan (SpecPlan) *)

ExplainPrefixes ==
    {"EXPLAIN ", "EXPLAIN (ANALYZE false, VERBOSE false, FORMAT TEXT) ", "EXPLAIN QUERY PLAN "}

\* C18: the plan returned by get_execution_plan is a linear chain: node i
\* (0-based, in result order) has id i, the first node has no parent and
\* every later node's parent is i - 1; what is sent to the backend's EXPLAIN
\* is the request's text without any LIMIT added or clamped.
C18_PlanIsLinearChain ==
    /\ (pc = "done" /\ result.status = "ok") =>
          /\ Len(result.plan) = Len(native)
          /\ \A n \in 1..Len(result.plan) :
                /\ result.plan[n].id = n - 1
                /\ result.plan[n].parent = IF n = 1 THEN <<>> ELSE <<n - 2>>
    /\ driverCall.kind \in {"MySQL", "PostgreSQL", "SQLite"} =>
          driverCall.text \in {prefix \o sql : prefix \in ExplainPrefixes}
    /\ driverCall.kind = "MongoDB" => driverCall.limit = Null

\* C18 witness: a plan of several nodes returned for a statement that
\* execute_query would have capped
C18_Witness ==
    /\ pc = "done"
    /\ result.status = "ok"
    /\ Len(result.plan) = MaxPlanRows
    /\ sql = "SELECT * FROM users LIMIT 5000"
    /\ driverCall.text = "EXPLAIN QUERY PLAN SELECT * FROM users LIMIT 5000"

----------------------------------------------------------------------------
(* Claims about the batch and cancel handlers (SpecApi) *)

\* C19: the batch-execute endpoint returns the not-implemented error for
\* every request, whatever its statements; it never issues a backend call
\* and never returns a partial or empty result list.
C19_BatchNotImplemented ==
    api.batch.response.status # "none" =>
        /\ api.batch.response.status = "error"
        /\ api.batch.response.error = "not_implemented"
        /\ driverCall.kind = "None"
        /\ pool = "None"

\* C19 witness: a batch of two statements has been answered
C19_Witness ==
    /\ Len(api.batch.statements) = 2
    /\ api.batch.response.error = "not_implemented"

\* the requests answered with success for an id
Succeeded(query_id) ==
    {i \in 1..Len(api.cancels) :
        api.cancels[i].status = "ok" /\ api.cancels[i].query_id = query_id}

\* the id was in the registry when request i took the mutex: it was
\* registered and no request before i had removed it
InRegistryAt(i) ==
    /\ api.cancels[i].query_id \in api.registered
    /\ \A j \in Succeeded(api.cancels[i].query_id) : api.cancels[j].at >= api.cancels[i].at

\* C20: cancel_query(id) succeeds exactly when id is in the registry at the
\* moment of the call; it then removes the entry and sends the signal once,
\* and otherwise reports not found leaving the registry unchanged; for any
\* interleaving at most one request per registered id succeeds and the
\* entries of other ids are untouched.
C20_CancelExactlyOnce ==
    /\ \A i \in 1..Len(api.cancels) :
          /\ api.cancels[i].status = "ok" => InRegistryAt(i)
          /\ api.cancels[i].status = "query_not_found" => ~InRegistryAt(i)
    /\ \A q \in QueryIds :
          /\ Cardinality(Succeeded(q)) <= 1
          /\ api.signals[q] = Cardinality(Succeeded(q))
    /\ Succeeded(UnknownQueryId) = {}
    /\ registry = {q \in api.registered : Succeeded(q) = {}}

\* C20 witness: two requests for the same registered id, one answered with
\* success and the other with not found, while another id stays registered
C20_Witness ==
    /\ \E i, j \in 1..Len(api.cancels) :
          /\ api.cancels[i].query_id = api.cancels[j].query_id
          /\ api.cancels[i].status = "ok"
          /\ api.cancels[j].status = "query_not_found"
          /\ api.cancels[j].at > api.cancels[i].at
    /\ registry # {}

----------------------------------------------------------------------------
(* Claims about the cancellation registry during execute_query (SpecExec) *)

\* C21: while execute_query has a backend call in flight, a cancellation
\* sender for that query is registered in the process-wide registry, so that
\* a cancel request for the in-flight query finds and removes it.
C21_SenderRegisteredInFlight ==
    pc = "querying" => registry # {}

----------------------------------------------------------------------------
(* Claims about the RateLimiter (SpecLimiter) *)

\* the requests allowed per key and window
RequestsPerWindow == 5

\* C22: a RateLimiter configured for 5 requests per window counts requests
\* per key: after 5 allowed requests for one key inside the window the next
\* request for that key is refused, while the requests of other keys are
\* counted separately.
C22_SixthRequestRefused ==
    \A key \in LimiterKeys :
        /\ limiter[key].allowed <= RequestsPerWindow
        /\ limiter[key].refused > 0 => limiter[key].allowed = RequestsPerWindow

----------------------------------------------------------------------------
(* Claims about the string fallback of add_limit_to_sql (SpecLimit) *)

\* the length of the run of digits at the start of s
DigitRun(s) ==
    CHOOSE n \in 0..Len(s) :
        /\ \A k \in 1..n : Ch(s, k) \in DigitSet
        /\ n = Len(s) \/ Ch(s, n + 1) \notin DigitSet

\* C23: add_limit_to_sql takes the string fallback only when parsing fails
\* or yields a number of statements other than one.  In the fallback, if the
\* lower-cased text contains " limit ", the digits following its first
\* occurrence are replaced in place by min(value, 1500) and the text before
\* and after is preserved; if it does not, " LIMIT 200" is appended to the
\* unchanged input.
C23_FallbackClampsInPlace ==
    (limited # NotLimited /\ parse_sql(sql) = ParseError) =>
        LET at == Find(to_lowercase(sql), " limit ")
            rest == SubSeq(sql, at + 7, Len(sql))
            n == DigitRun(rest)
        IN  IF at = 0 THEN limited = sql \o " LIMIT 200"
            ELSE n > 0 =>
                    limited = SubSeq(sql, 1, at + 6)
                                \o ClampedNumeral(SubSeq(rest, 1, n))
                                \o SubSeq(rest, n + 1, Len(rest))

----------------------------------------------------------------------------
(* Claims about the pipeline row cap (SpecCalls) *)

\* the integer a numeric value denotes, its fraction dropped, as a numeral
IntegerNumeral(value) ==
    LET dot == Find(value.v, ".") IN
    IF dot = 0 THEN value.v ELSE SubSeq(value.v, 1, dot - 1)

\* the numeral of min(v, 1500)
MinNumeral(numeral) ==
    IF Ch(numeral, 1) = "-" THEN numeral ELSE ClampedNumeral(numeral)

\* C24: add_or_adjust_limit coerces the value v of every $limit stage to an
\* integer and stores min(v, 1500), for every numeric v of any width (32-bit
\* integer, 64-bit integer, double); after the call no $limit stage holds a
\* value above 1500.
C24_LimitIsMinOfValue ==
    fnCall.fn = "add_or_adjust_limit" =>
        \A i \in 1..Len(fnCall.arg) :
            HasKey(fnCall.arg[i], "$limit") =>
                /\ DocGet(fnRet[i], "$limit").k = "Int32"
                /\ limit_bson_value(DocGet(fnRet[i], "$limit")) <= 1500
                /\ DocGet(fnCall.arg[i], "$limit").k \in {"Int32", "Int64", "Double"} =>
                      DocGet(fnRet[i], "$limit").v
                          = MinNumeral(IntegerNumeral(DocGet(fnCall.arg[i], "$limit")))

----------------------------------------------------------------------------
(* Claims about the cell decoders (SpecCalls) *)

\* the fallback order of the arm without typed metadata
FallbackOrder == <<"String", "i64", "f64">>

\* the decoder the declared type name selects
DeclaredDecoder(kind, type) ==
    CASE kind = "PostgreSQL" ->
            (IF type \in {"INT2", "INT4", "INT8"} THEN "i64"
             ELSE IF type \in {"FLOAT4", "FLOAT8", "NUMERIC"} THEN "f64"
             ELSE "String")
      [] kind = "SQLite" ->
            (IF type = "INTEGER" THEN "i64" ELSE IF type = "REAL" THEN "f64" ELSE "String")

\* C25: in the MySQL arm each cell is decoded by trying string, then 64-bit
\* integer, then double, and the first decode that succeeds is the cell's
\* value; the cell is null exactly when all three fail.  In the PostgreSQL
\* and SQLite arms the decoder is chosen by the declared column type name,
\* with string decoding for unrecognised names, and the cell is null when
\* the chosen decode fails.
C25_DecodeOrder ==
    fnCall.fn = "row_value" =>
        LET kind == fnCall.arg.kind
            row == fnCall.arg.row
            attempt(n) == try_get("MySQL", FallbackOrder[n], row, 1)
        IN  IF kind = "MySQL"
            THEN /\ \A n \in 1..3 :
                       (attempt(n) # DecodeErr /\ \A m \in 1..(n - 1) : attempt(m) = DecodeErr)
                           => fnRet = attempt(n)
                 /\ fnRet = JsonNull <=> \A n \in 1..3 : attempt(n) = DecodeErr
            ELSE LET chosen == try_get(kind, DeclaredDecoder(kind, row.columns[1].type), row, 1)
                 IN  /\ chosen # DecodeErr => fnRet = chosen
                     /\ chosen = DecodeErr => fnRet = JsonNull

\* C25 witness: a MySQL cell whose string and integer decodes fail and whose
\* double decode gives the value
C25_Witness ==
    /\ fnCall.fn = "row_value"
    /\ fnCall.arg.kind = "MySQL"
    /\ try_get("MySQL", "String", fnCall.arg.row, 1) = DecodeErr
    /\ try_get("MySQL", "i64", fnCall.arg.row, 1) = DecodeErr
    /\ fnRet = Bson("Number", "1")

----------------------------------------------------------------------------
(* Claims about the LIMIT of every query form (SpecLimit) *)

\* C26: for every input that parses as exactly one query statement, whatever
\* the form of its LIMIT expression (integer literal, literal too large for
\* 64 bits, arithmetic expression, placeholder, ALL), the statement returned
\* by add_limit_to_sql carries a LIMIT whose value is a number of at most
\* 1500.
C26_EveryQueryCapped ==
    (limited # NotLimited /\ parse_sql(sql).kind = "Query") =>
        /\ parse_sql(limited).kind = "Query"
        /\ parse_sql(limited).limit.tag = "Number"
        /\ NumeralLeq(parse_sql(limited).limit.s, "1500")

----------------------------------------------------------------------------
(* Claims about the stages of a filtered pipeline (SpecCalls) *)

\* C27: filter_aggregate_pipeline returns exactly as many stages as it was
\* given, in the same order, each being the input stage with its denylisted
\* keys removed at every depth; no stage is dropped or added, so a stage
\* whose only top-level key is denylisted remains as an empty document.
C27_StagesKept ==
    fnCall.fn = "filter_aggregate_pipeline" =>
        /\ Len(fnRet) = Len(fnCall.arg)
        /\ \A i \in 1..Len(fnCall.arg) :
              /\ IsStrippedFrom(Bson("Document", fnRet[i]), Bson("Document", fnCall.arg[i]))
              /\ KeysAtAnyDepth(Bson("Document", fnRet[i])) \cap DANGEROUS_OPERATORS = {}
              /\ (\A k \in 1..Len(fnCall.arg[i]) : fnCall.arg[i][k][1] \in DANGEROUS_OPERATORS)
                    => fnRet[i] = <<>>

\* C27 witness: a pipeline of two stages whose second stage holds only $out
\* came back with two stages, the second one empty
C27_Witness ==
    /\ fnCall.fn = "filter_aggregate_pipeline"
    /\ Len(fnCall.arg) = 2
    /\ DocKeys(fnCall.arg[1]) = <<"$match">>
    /\ DocKeys(fnCall.arg[2]) = <<"$out">>
    /\ Len(fnRet) = 2
    /\ fnRet[2] = <<>>

----------------------------------------------------------------------------
(* Claims about the TemplateManager (SpecManager) *)

\* no two stored templates with different ids have the same name
NamesUnique(mgr) ==
    \A a, b \in DOMAIN mgr.templates :
        mgr.templates[a].name = mgr.templates[b].name => a = b

\* the name of the call's template is used by a stored template of another id
UsedByAnother(mgr, template) ==
    \E id \in DOMAIN mgr.templates \ {template.template_id} :
        mgr.templates[id].name = template.name

\* what one call of add_template, update_template or delete_template does
CallKeepsStore ==
    LET template == fnCall'.arg IN
    /\ fnCall'.fn \in {"add_template", "update_template"} =>
          /\ (/\ UsedByAnother(manager, template)
              /\ \/ fnCall'.fn = "add_template"
                 \/ template.template_id \in DOMAIN manager.templates)
                => (fnRet' = "DuplicateName" /\ manager' = manager)
          /\ fnRet' = "DuplicateName" => UsedByAnother(manager, template)
    /\ (fnCall'.fn = "update_template" /\ template.template_id \notin DOMAIN manager.templates)
          => (fnRet' = "NotFound" /\ manager' = manager)
    /\ (fnCall'.fn = "delete_template" /\ fnRet' = "Ok") =>
          /\ template.template_id \notin DOMAIN manager'.templates
          /\ \A key \in DOMAIN manager'.default_templates :
                manager'.default_templates[key] # template.template_id
          /\ \A key \in DOMAIN manager.default_templates :
                manager.default_templates[key] # template.template_id
                    => (key \in DOMAIN manager'.default_templates
                        /\ manager'.default_templates[key] = manager.default_templates[key])

\* C29: after any sequence of add_template, update_template and
\* delete_template calls starting from TemplateManager::new(), no two stored
\* templates with different ids have the same name; add and update return
\* DuplicateName and leave the store unchanged when the name is used by
\* another id, update returns NotFound and leaves the store unchanged for an
\* unknown id, and delete_template removes every default mapping that named
\* the deleted template.
C29_NamesStayUnique ==
    [](NamesUnique(manager)) /\ [][CallKeepsStore]_vars

\* C29 witness: delete_template of sql_explain_default succeeded with a
\* custom template stored, and only the sql_optimize mapping is left
C29_Witness ==
    /\ fnCall.fn = "delete_template"
    /\ fnRet = "Ok"
    /\ fnCall.arg.template_id = "sql_explain_default"
    /\ DOMAIN manager.default_templates = {"sql_optimize"}
    /\ "sql_custom_1" \in DOMAIN manager.templates

----------------------------------------------------------------------------
(* Claims about the template routes (SpecTemplates) *)

\* the ids of the templates in the body of an answer
BodyIds(exchange) == {t.template_id : t \in exchange.body}

\* C28: after a create-template request has succeeded, a later get-template
\* or list-templates request on the same running server returns the created
\* template (as long as no delete of it succeeded in between).
C28_CreatedTemplateIsServed ==
    \A i, j \in DOMAIN http :
        (/\ i < j
         /\ http[i].op = "create_template"
         /\ http[i].status = 200
         /\ \A k \in (i + 1)..(j - 1) :
               ~(http[k].op = "delete_template" /\ http[k].id = http[i].id
                 /\ http[k].status = 200))
        => /\ (http[j].op = "get_template" /\ http[j].id = http[i].id)
                => (http[j].status = 200 /\ http[i].id \in BodyIds(http[j]))
           /\ http[j].op = "get_templates" => http[i].id \in BodyIds(http[j])

----------------------------------------------------------------------------
(* Claims about the connection toggle (SpecToggle) *)

\* the toggle requests for a connection that were answered with success
CompletedToggles(id) ==
    {i \in DOMAIN http : http[i].id = id /\ http[i].pc = "done" /\ http[i].status = 200}

\* no toggle request for the connection is still being handled
NoneInFlight(id) == \A i \in DOMAIN http : http[i].id = id => http[i].pc = "done"

\* C30: every toggle request flips the stored active flag exactly once:
\* after n completed toggle requests for a connection, in any interleaving
\* including overlapping ones, the flag differs from its initial value
\* exactly when n is odd, and last_connected_at is set exactly when the flag
\* is active.
C30_EveryToggleFlipsOnce ==
    \A id \in StoredIds :
        (NoneInFlight(id) /\ CompletedToggles(id) # {}) =>
            /\ ((id \in activeIds) # (id \in InitiallyActive))
                  <=> (Cardinality(CompletedToggles(id)) % 2 = 1)
            /\ (lastConnectedAt[id] # <<>>) <=> (id \in activeIds)

====
